---------------------------- MODULE Spec2Model ----------------------------
(***************************************************************************)
(* Model of the waveguide mode-solving engine (mathias8dev/waveguide):     *)
(* the abstract Waveguide contract and the rectangular, circular and       *)
(* coaxial solvers.                                                        *)
(*                                                                         *)
(* Numbers.  A JavaScript number is modelled by a record with a kind k:    *)
(*   "nan"                    NaN                                          *)
(*   "inf"  (n = 1 or -1)     +Infinity, -Infinity                         *)
(*   "rat"  (n, d)            the rational n/d, gcd(n,d) = 1, d > 0        *)
(*   "sqrt" (n, d)            the real sqrt(n/d), n/d > 0 not a square     *)
(*   "sym"  (op, args)        a real that has no closed form here (a       *)
(*                            cosine, a Bessel value, ...): the term       *)
(*                            op(args), equal to itself only               *)
(* Arithmetic is exact (real arithmetic: rounding is not modelled), and    *)
(* the IEEE-754 rules for NaN, the infinities and division by zero are     *)
(* kept.  Units: lengths in cm, frequencies in GHz.                        *)
(***************************************************************************)
EXTENDS Integers, Sequences, FiniteSets, TLC

VARIABLES guide, call, ret, factorialCache, store, animation

vars == <<guide, call, ret, factorialCache, store, animation>>

\* the state outside the engine: the factorial cache of utils/math, the
\* simulation store and the animation hook
uiVars == <<factorialCache, store, animation>>

-----------------------------------------------------------------------------
(* Exact arithmetic on JavaScript numbers                                  *)

AbsInt(i) == IF i < 0 THEN -i ELSE i

SgnInt(i) == IF i < 0 THEN -1 ELSE IF i = 0 THEN 0 ELSE 1

RECURSIVE GCD(_, _)
GCD(i, j) == IF j = 0 THEN i ELSE GCD(j, i % j)

RECURSIVE IsqrtIn(_, _, _)
\* the largest r in lo..hi with r * r <= i (hi <= 46340 keeps r * r in range)
IsqrtIn(i, lo, hi) ==
  IF lo >= hi THEN lo
  ELSE LET mid == (lo + hi + 1) \div 2
       IN  IF mid * mid <= i THEN IsqrtIn(i, mid, hi) ELSE IsqrtIn(i, lo, mid - 1)

Isqrt(i) == IsqrtIn(i, 0, 46340)

NaN == [k |-> "nan", n |-> 0, d |-> 1]

PosInf == [k |-> "inf", n |-> 1, d |-> 1]

NegInf == [k |-> "inf", n |-> -1, d |-> 1]

Inf(s) == IF s < 0 THEN NegInf ELSE PosInf

\* the rational i/j, j # 0, divided through by g, with a positive denominator
RatOver(i, j, g) ==
  [k |-> "rat", n |-> SgnInt(j) * (i \div g), d |-> SgnInt(j) * (j \div g)]

\* the rational i/j, j # 0, in lowest terms
Rat(i, j) == RatOver(i, j, GCD(AbsInt(i), AbsInt(j)))

Num(i) == [k |-> "rat", n |-> i, d |-> 1]

Zero == Num(0)

One == Num(1)

Sym(op, args) == [k |-> "sym", op |-> op, args |-> args]

IsNaN(x) == x.k = "nan"

IsInf(x) == x.k = "inf"

IsRat(x) == x.k = "rat"

IsFin(x) == x.k \in {"rat", "sqrt"}

IsSym(x) == x.k = "sym"

\* Number.isFinite / isFinite on a number
isFinite(x) == x.k \in {"rat", "sqrt", "sym"}

IsZero(x) == x.k = "rat" /\ x.n = 0

\* sign of a number that is not NaN and not symbolic ("sqrt" values are > 0)
Sgn(x) == IF x.k = "sqrt" THEN 1 ELSE SgnInt(x.n)

\* the square of a finite number, as a rational (in lowest terms as x is)
Sq(x) ==
  [k |-> "rat",
   n |-> IF x.k = "sqrt" THEN x.n ELSE x.n * x.n,
   d |-> IF x.k = "sqrt" THEN x.d ELSE x.d * x.d]

\* i * j is within the exact integer range of the model
Fits(i, j) == i = 0 \/ AbsInt(j) <= 2147483647 \div AbsInt(i)

RECURSIVE CmpEuclid(_, _, _, _)
\* the sign of a/b - c/d (b, d > 0) by integer parts and reciprocals of the
\* fractional parts, for operands whose cross products leave the integers
CmpEuclid(a, b, c, d) ==
  IF a \div b # c \div d THEN SgnInt(a \div b - c \div d)
  ELSE IF a % b = 0 \/ c % d = 0 THEN SgnInt(SgnInt(a % b) - SgnInt(c % d))
  ELSE CmpEuclid(d, c % d, b, a % b)

\* the sign of p - q by cross-multiplication, g dividing the denominators and
\* h the numerators (h = 0 when both numerators are 0)
CmpCross(p, q, g, h) ==
  IF h = 0 THEN 0
  ELSE IF Fits(p.n \div h, q.d \div g) /\ Fits(q.n \div h, p.d \div g)
  THEN SgnInt((p.n \div h) * (q.d \div g) - (q.n \div h) * (p.d \div g))
  ELSE CmpEuclid(p.n, p.d, q.n, q.d)

\* -1, 0, 1 as the rational p is <, =, > the rational q
CmpRat(p, q) == CmpCross(p, q, GCD(p.d, q.d), GCD(AbsInt(p.n), AbsInt(q.n)))

\* -1, 0, 1 as x is <, =, > y, for x and y finite or infinite
Cmp(x, y) ==
  IF IsInf(x) \/ IsInf(y)
  THEN SgnInt((IF IsInf(x) THEN 2 * x.n ELSE 0) - (IF IsInf(y) THEN 2 * y.n ELSE 0))
  ELSE IF IsRat(x) /\ IsRat(y) THEN CmpRat(x, y)
  ELSE IF Sgn(x) # Sgn(y) THEN SgnInt(Sgn(x) - Sgn(y))
  ELSE Sgn(x) * CmpRat(Sq(x), Sq(y))

Comparable(x, y) == ~IsNaN(x) /\ ~IsNaN(y)

\* x < y, x <= y, x > y, x >= y, x === y of JavaScript (false when NaN is involved)
LT(x, y) == Comparable(x, y) /\ Cmp(x, y) < 0

LE(x, y) == Comparable(x, y) /\ Cmp(x, y) <= 0

GT(x, y) == Comparable(x, y) /\ Cmp(x, y) > 0

GE(x, y) == Comparable(x, y) /\ Cmp(x, y) >= 0

EQ(x, y) == Comparable(x, y) /\ Cmp(x, y) = 0

Neg(x) ==
  IF IsNaN(x) THEN NaN
  ELSE IF IsSym(x) THEN Sym("neg", <<x>>)
  ELSE IF x.k = "sqrt" THEN Sym("neg", <<x>>)
  ELSE [x EXCEPT !.n = -x.n]

Abs(x) ==
  IF IsNaN(x) THEN NaN
  ELSE IF IsSym(x) THEN Sym("abs", <<x>>)
  ELSE IF x.k = "sqrt" THEN x
  ELSE [x EXCEPT !.n = AbsInt(x.n)]

\* the positive square root of the rational q > 0, rn and rd being the integer
\* square roots of its numerator and denominator
SqrtRatBy(q, rn, rd) ==
  IF rn * rn = q.n /\ rd * rd = q.d
  THEN [k |-> "rat", n |-> rn, d |-> rd]
  ELSE [k |-> "sqrt", n |-> q.n, d |-> q.d]

\* the positive square root of the rational q > 0
SqrtRat(q) == SqrtRatBy(q, Isqrt(q.n), Isqrt(q.d))

\* Math.sqrt(x)
Sqrt(x) ==
  IF IsNaN(x) THEN NaN
  ELSE IF IsInf(x) THEN (IF x.n > 0 THEN PosInf ELSE NaN)
  ELSE IF IsRat(x) THEN (IF x.n < 0 THEN NaN ELSE IF x.n = 0 THEN Zero ELSE SqrtRat(x))
  ELSE Sym("sqrt", <<x>>)

\* the square of the finite number x is within the exact integer range
SqFits(x) == x.k = "sqrt" \/ (AbsInt(x.n) <= 46340 /\ x.d <= 46340)

\* the product of the fractions a/b and c/d, which share no factor crosswise,
\* as a rational, or none when it leaves the exact integer range
MulFrac(a, b, c, d) ==
  IF Fits(a, c) /\ Fits(b, d) THEN [k |-> "rat", n |-> a * c, d |-> b * d]
  ELSE [k |-> "none"]

\* p * q with g dividing p.n and q.d, and h dividing q.n and p.d
MulCross(p, q, g, h) == MulFrac(p.n \div g, p.d \div h, q.n \div h, q.d \div g)

\* the rational p * q, cross-reduced first; none when out of range
MulRat(p, q) == MulCross(p, q, GCD(AbsInt(p.n), q.d), GCD(AbsInt(q.n), p.d))

\* r for sgn > 0, -r otherwise
WithSign(sgn, r) == IF sgn > 0 THEN r ELSE Neg(r)

\* the number of sign sgn whose square is the rational sq (none: out of range)
SignedRoot(sgn, sq) ==
  IF sq.k = "none" THEN sq ELSE WithSign(sgn, SqrtRat(sq))

\* a product computed in closed form, or the term mul(x, y)
ClosedOr(r, x, y) == IF r.k = "none" THEN Sym("mul", <<x, y>>) ELSE r

\* x * y
Mul(x, y) ==
  IF IsNaN(x) \/ IsNaN(y) THEN NaN
  ELSE IF IsSym(x) \/ IsSym(y) THEN Sym("mul", <<x, y>>)
  ELSE IF IsInf(x) \/ IsInf(y)
       THEN (IF Sgn(x) * Sgn(y) = 0 THEN NaN ELSE Inf(Sgn(x) * Sgn(y)))
  ELSE IF IsZero(x) \/ IsZero(y) THEN Zero
  ELSE IF IsRat(x) /\ IsRat(y) THEN ClosedOr(MulRat(x, y), x, y)
  ELSE IF ~SqFits(x) \/ ~SqFits(y) THEN Sym("mul", <<x, y>>)
  ELSE ClosedOr(SignedRoot(Sgn(x) * Sgn(y), MulRat(Sq(x), Sq(y))), x, y)

\* 1 / y for y finite and not zero
Recip(y) ==
  IF IsRat(y) THEN Rat(y.d, y.n) ELSE [k |-> "sqrt", n |-> y.d, d |-> y.n]

\* x / y
Div(x, y) ==
  IF IsNaN(x) \/ IsNaN(y) THEN NaN
  ELSE IF IsSym(x) \/ IsSym(y) THEN Sym("div", <<x, y>>)
  ELSE IF IsInf(y) THEN (IF IsInf(x) THEN NaN ELSE Zero)
  ELSE IF IsInf(x) THEN Inf(x.n * (IF Sgn(y) < 0 THEN -1 ELSE 1))
  ELSE IF IsZero(y) THEN (IF IsZero(x) THEN NaN ELSE Inf(Sgn(x)))
  ELSE Mul(x, Recip(y))

\* the rational x + y, g being the gcd of the denominators
AddRat(x, y, g) ==
  Rat(x.n * (y.d \div g) + y.n * (x.d \div g), (x.d \div g) * y.d)

\* x + y
Add(x, y) ==
  IF IsNaN(x) \/ IsNaN(y) THEN NaN
  ELSE IF IsSym(x) \/ IsSym(y) THEN Sym("add", <<x, y>>)
  ELSE IF IsInf(x) /\ IsInf(y) THEN (IF x.n = y.n THEN x ELSE NaN)
  ELSE IF IsInf(x) THEN x
  ELSE IF IsInf(y) THEN y
  ELSE IF IsZero(x) THEN y
  ELSE IF IsZero(y) THEN x
  ELSE IF IsRat(x) /\ IsRat(y) THEN AddRat(x, y, GCD(x.d, y.d))
  ELSE Sym("add", <<x, y>>)

\* x - y
Sub(x, y) ==
  IF IsNaN(x) \/ IsNaN(y) THEN NaN
  ELSE IF IsSym(y) \/ y.k = "sqrt" THEN Sym("sub", <<x, y>>)
  ELSE Add(x, Neg(y))

\* Math.pow(x, 2)
Pow2(x) ==
  IF IsNaN(x) THEN NaN
  ELSE IF IsSym(x) THEN Sym("pow2", <<x>>)
  ELSE IF IsInf(x) THEN PosInf
  ELSE IF x.k = "sqrt" THEN Sq(x)
  ELSE Mul(x, x)

\* Math.max(x, y), Math.min(x, y)
Max(x, y) == IF IsNaN(x) \/ IsNaN(y) THEN NaN ELSE IF Cmp(x, y) >= 0 THEN x ELSE y

Min(x, y) == IF IsNaN(x) \/ IsNaN(y) THEN NaN ELSE IF Cmp(x, y) <= 0 THEN x ELSE y

\* Math.sqrt(x * x - y * y) for finite x >= 0 and y >= 0, c being the sign of
\* x - y, which is the sign of x * x - y * y
SqrtDiffSqBy(x, y, c) ==
  IF c < 0 THEN NaN
  ELSE IF c = 0 THEN Zero
  ELSE IF IsZero(y) THEN x
  ELSE Sym("sqrtDiffSq", <<x, y>>)

SqrtDiffSqAbs(x, y) == SqrtDiffSqBy(x, y, Cmp(x, y))

\* Math.sqrt(x * x - y * y), without forming the squares
SqrtDiffSq(x, y) ==
  IF IsNaN(x) \/ IsNaN(y) THEN NaN
  ELSE IF IsSym(x) \/ IsSym(y) THEN Sym("sqrtDiffSq", <<x, y>>)
  ELSE IF IsInf(y) THEN NaN
  ELSE IF IsInf(x) THEN PosInf
  ELSE SqrtDiffSqAbs(Abs(x), Abs(y))

-----------------------------------------------------------------------------
(* Constants and types                                                     *)

\* Math.PI, as the rational 22/7
PI == Rat(22, 7)

TwoPi == Mul(Num(2), PI)

\* CONSTANTS.c = 299792458 m/s = 29.98 cm GHz, rounded to 30 cm GHz
C == Num(30)

\* CONSTANTS.eta0 = 376.730313668 Ohm, to two decimals
ETA0 == Rat(37673, 100)

\* CONSTANTS.mu0, CONSTANTS.eps0: only ever factors of field amplitudes
MU0 == Sym("mu0", <<>>)

EPS0 == Sym("eps0", <<>>)

\* the value of an object field that was never assigned
Undefined == [k |-> "undefined", n |-> 0, d |-> 1]

\* a thrown Error
Throw(msg) == [k |-> "throw", msg |-> msg]

IsThrow(v) == v.k = "throw"

ModeType == {"TE", "TM", "TEM", "HE", "EH"}

Mode(type, m, n) == [type |-> type, m |-> m, n |-> n]

ZeroVector == [x |-> Zero, y |-> Zero, z |-> Zero]

\* { E: { x: 0, y: 0, z: 0 }, H: { x: 0, y: 0, z: 0 } }
ZeroField == [k |-> "field", E |-> ZeroVector, H |-> ZeroVector]

-----------------------------------------------------------------------------
(* Constructors.  A constructor call yields [k |-> "ok", this |-> object]  *)
(* or [k |-> "throw", msg, this |-> the object as it was when the error    *)
(* was thrown].                                                            *)

\* variant: only a is validated
RectangularWaveguide_validatesOnlyA(params) ==
  LET this0 == [type |-> "rectangular", a |-> Undefined, b |-> Undefined]
  IN  IF LE(params.a, Zero) \/ ~isFinite(params.a)
      THEN [k |-> "throw", msg |-> "a", this |-> this0]
      ELSE [k |-> "ok", msg |-> "",
            this |-> [this0 EXCEPT !.a = Max(params.a, params.b),
                                   !.b = Min(params.a, params.b)]]

\* variant: the dimensions are stored in the order passed
RectangularWaveguide_keepsOrder(params) ==
  LET this0 == [type |-> "rectangular", a |-> Undefined, b |-> Undefined]
  IN  IF LE(params.a, Zero) \/ ~isFinite(params.a)
      THEN [k |-> "throw", msg |-> "a", this |-> this0]
      ELSE IF LE(params.b, Zero) \/ ~isFinite(params.b)
      THEN [k |-> "throw", msg |-> "b", this |-> this0]
      ELSE [k |-> "ok", msg |-> "",
            this |-> [this0 EXCEPT !.a = params.a, !.b = params.b]]

RectangularWaveguide(params) ==
  LET this0 == [type |-> "rectangular", a |-> Undefined, b |-> Undefined]
  IN  IF LE(params.a, Zero) \/ ~isFinite(params.a)
      THEN [k |-> "throw", msg |-> "a", this |-> this0]
      ELSE IF LE(params.b, Zero) \/ ~isFinite(params.b)
      THEN [k |-> "throw", msg |-> "b", this |-> this0]
      ELSE [k |-> "ok", msg |-> "",
            this |-> [this0 EXCEPT !.a = Max(params.a, params.b),
                                   !.b = Min(params.a, params.b)]]

CircularWaveguide(params) ==
  LET this0 == [type |-> "circular", radius |-> Undefined]
  IN  [k |-> "ok", msg |-> "", this |-> [this0 EXCEPT !.radius = params.radius]]

\* variant: equal radii pass the last validation (> in place of >=)
CoaxialWaveguide_acceptsEqualRadii(params) ==
  LET this0 == [type |-> "coaxial", innerRadius |-> Undefined, outerRadius |-> Undefined]
  IN  IF LE(params.innerRadius, Zero) \/ ~isFinite(params.innerRadius)
      THEN [k |-> "throw", msg |-> "innerRadius", this |-> this0]
      ELSE IF LE(params.outerRadius, Zero) \/ ~isFinite(params.outerRadius)
      THEN [k |-> "throw", msg |-> "outerRadius", this |-> this0]
      ELSE IF GT(params.innerRadius, params.outerRadius)
      THEN [k |-> "throw", msg |-> "innerRadius >= outerRadius", this |-> this0]
      ELSE [k |-> "ok", msg |-> "",
            this |-> [this0 EXCEPT !.innerRadius = params.innerRadius,
                                   !.outerRadius = params.outerRadius]]

CoaxialWaveguide(params) ==
  LET this0 == [type |-> "coaxial", innerRadius |-> Undefined, outerRadius |-> Undefined]
  IN  IF LE(params.innerRadius, Zero) \/ ~isFinite(params.innerRadius)
      THEN [k |-> "throw", msg |-> "innerRadius", this |-> this0]
      ELSE IF LE(params.outerRadius, Zero) \/ ~isFinite(params.outerRadius)
      THEN [k |-> "throw", msg |-> "outerRadius", this |-> this0]
      ELSE IF GE(params.innerRadius, params.outerRadius)
      THEN [k |-> "throw", msg |-> "innerRadius >= outerRadius", this |-> this0]
      ELSE [k |-> "ok", msg |-> "",
            this |-> [this0 EXCEPT !.innerRadius = params.innerRadius,
                                   !.outerRadius = params.outerRadius]]

-----------------------------------------------------------------------------
(* Bessel zeros (engine/math/bessel.ts)                                    *)

\* a tabulated value, written in units of 1e-4
T4(i) == Rat(i, 10000)

\* BESSEL_J_ZEROS[n][p - 1] is BESSEL_J_ZEROS[n + 1][p] here
BESSEL_J_ZEROS ==
  << <<T4(24048), T4(55201), T4(86537), T4(117915), T4(149309)>>,
     <<T4(38317), T4(70156), T4(101735), T4(133237), T4(164706)>>,
     <<T4(51356), T4(84172), T4(116198), T4(147960), T4(179598)>>,
     <<T4(63802), T4(97610), T4(130152), T4(162235), T4(194094)>>,
     <<T4(75883), T4(110647), T4(143725), T4(176160), T4(208269)>> >>

BESSEL_J_PRIME_ZEROS ==
  << <<T4(38317), T4(70156), T4(101735), T4(133237), T4(164706)>>,
     <<T4(18412), T4(53314), T4(85363), T4(117060), T4(148636)>>,
     <<T4(30542), T4(67061), T4(99695), T4(131704), T4(163475)>>,
     <<T4(42012), T4(80152), T4(113459), T4(145858), T4(177887)>>,
     <<T4(53175), T4(92824), T4(126819), T4(159641), T4(191960)>> >>

\* Newton-Raphson from the initial guess: a real with no closed form
findBesselJZero(n, p) == Sym("findBesselJZero", <<Num(n), Num(p)>>)

findBesselJPrimeZero(n, p) == Sym("findBesselJPrimeZero", <<Num(n), Num(p)>>)

\* Number.isInteger(x): false for NaN, the infinities and fractions
Number_isInteger(x) == x.k = "rat" /\ x.d = 1

\* variant: the row is looked up, the length of the row is not
IsTabulated_rowOnly(table, n, p) == n + 1 \in DOMAIN table

\* n in TABLE && p <= TABLE[n].length, for integers n >= 0 and p >= 1
IsTabulated(table, n, p) ==
  n + 1 \in DOMAIN table /\ p <= Len(table[n + 1])

\* TABLE[n][p - 1], undefined outside the row
TableAt(table, n, p) ==
  IF n + 1 \in DOMAIN table /\ p \in DOMAIN table[n + 1] THEN table[n + 1][p] ELSE Undefined

\* variant: a negative order is clamped to 0 and a root index below 1 to 1
InvalidOrder_clamping(n) == ~Number_isInteger(n)

\* n < 0 || !Number.isInteger(n)
InvalidOrder(n) ==
  LT(n, Zero) \/ ~Number_isInteger(n)

\* p < 1 || !Number.isInteger(p)
InvalidRoot(p) == LT(p, One) \/ ~Number_isInteger(p)

\* the body of both lookups once the arguments are integers n >= 0, p >= 1
BesselZeroOf(table, n, p, fallback) ==
  IF IsTabulated(table, n, p) THEN TableAt(table, n, p) ELSE fallback

getBesselJZero(n, p) ==
  IF InvalidOrder(n) THEN Throw("getBesselJZero: n")
  ELSE IF InvalidRoot(p) THEN Throw("getBesselJZero: p")
  ELSE BesselZeroOf(BESSEL_J_ZEROS, n.n, p.n, findBesselJZero(n.n, p.n))

getBesselJPrimeZero(n, p) ==
  IF InvalidOrder(n) THEN Throw("getBesselJPrimeZero: n")
  ELSE IF InvalidRoot(p) THEN Throw("getBesselJPrimeZero: p")
  ELSE BesselZeroOf(BESSEL_J_PRIME_ZEROS, n.n, p.n, findBesselJPrimeZero(n.n, p.n))

\* the steps a lookup takes, in the order of its statements
BesselZeroSteps(table, n, p) ==
  IF InvalidOrder(n) THEN <<"check n", "throw">>
  ELSE IF InvalidRoot(p) THEN <<"check n", "check p", "throw">>
  ELSE IF IsTabulated(table, n.n, p.n) THEN <<"check n", "check p", "table", "return">>
  ELSE <<"check n", "check p", "table", "warn", "iterate", "return">>

-----------------------------------------------------------------------------
(* Cutoff wavenumber and cutoff frequency                                  *)

\* (c * kc) / (2 * Math.PI)
CutoffFromWavenumber(kc) ==
  IF IsThrow(kc) THEN kc ELSE Div(Mul(C, kc), TwoPi)

\* variant: m goes with the short side b and n with the long side a
RectangularWaveguide_getCutoffWavenumber_swapped(this, mode) ==
  Sqrt(Add(Pow2(Div(Mul(Num(mode.m), PI), this.b)),
           Pow2(Div(Mul(Num(mode.n), PI), this.a))))

RectangularWaveguide_getCutoffWavenumber(this, mode) ==
  Sqrt(Add(Pow2(Div(Mul(Num(mode.m), PI), this.a)),
           Pow2(Div(Mul(Num(mode.n), PI), this.b))))

RectangularWaveguide_getCutoffFrequency(this, mode) ==
  CutoffFromWavenumber(RectangularWaveguide_getCutoffWavenumber(this, mode))

\* chi / this.radius; a zero lookup that threw is passed on
CircularWaveguide_wavenumberOf(this, chi) ==
  IF IsThrow(chi) THEN chi ELSE Div(chi, this.radius)

CircularWaveguide_getCutoffWavenumber(this, mode) ==
  IF mode.type = "TE"
  THEN CircularWaveguide_wavenumberOf(this, getBesselJPrimeZero(Num(mode.n), Num(mode.m)))
  ELSE IF mode.type = "TM"
  THEN CircularWaveguide_wavenumberOf(this, getBesselJZero(Num(mode.n), Num(mode.m)))
  ELSE Zero

CircularWaveguide_getCutoffFrequency(this, mode) ==
  CutoffFromWavenumber(CircularWaveguide_getCutoffWavenumber(this, mode))

\* Math.sqrt(Math.pow(n / meanRadius, 2) + Math.pow(radial, 2)), where
\* meanRadius = (a + b) / 2
CoaxialWaveguide_hybridWavenumber(this, n, radial) ==
  Sqrt(Add(Pow2(Div(Num(n), Div(Add(this.innerRadius, this.outerRadius), Num(2)))),
           Pow2(radial)))

\* the wavenumber by mode type, radial being (m * Math.PI) / (b - a)
CoaxialWaveguide_wavenumberByType(this, mode, radial) ==
  IF mode.type = "TEM" THEN Zero
  ELSE IF mode.type = "TE"
  THEN (IF mode.n = 0 THEN radial
        ELSE CoaxialWaveguide_hybridWavenumber(this, mode.n, radial))
  ELSE IF mode.type = "TM"
  THEN (IF mode.n = 0
        THEN Mul(radial,
                 Add(One, Mul(Rat(1, 10),
                              Sub(Div(this.outerRadius, this.innerRadius), One))))
        ELSE CoaxialWaveguide_hybridWavenumber(this, mode.n, radial))
  ELSE Zero

CoaxialWaveguide_getCutoffWavenumber(this, mode) ==
  CoaxialWaveguide_wavenumberByType(
    this, mode, Div(Mul(Num(mode.m), PI), Sub(this.outerRadius, this.innerRadius)))

CoaxialWaveguide_getCutoffFrequency(this, mode) ==
  IF mode.type = "TEM" THEN Zero
  ELSE CutoffFromWavenumber(CoaxialWaveguide_getCutoffWavenumber(this, mode))

\* virtual dispatch on the concrete class
getCutoffWavenumber(this, mode) ==
  CASE this.type = "rectangular" -> RectangularWaveguide_getCutoffWavenumber(this, mode)
    [] this.type = "circular" -> CircularWaveguide_getCutoffWavenumber(this, mode)
    [] this.type = "coaxial" -> CoaxialWaveguide_getCutoffWavenumber(this, mode)

getCutoffFrequency(this, mode) ==
  CASE this.type = "rectangular" -> RectangularWaveguide_getCutoffFrequency(this, mode)
    [] this.type = "circular" -> CircularWaveguide_getCutoffFrequency(this, mode)
    [] this.type = "coaxial" -> CoaxialWaveguide_getCutoffFrequency(this, mode)

-----------------------------------------------------------------------------
(* Mode support and enumeration                                            *)

\* variant: TM accepted under the TE rule
RectangularWaveguide_isModeSupported_TMlikeTE(this, mode) ==
  IF mode.type \in {"TE", "TM"}
  THEN mode.m >= 0 /\ mode.n >= 0 /\ ~(mode.m = 0 /\ mode.n = 0)
  ELSE FALSE

RectangularWaveguide_isModeSupported(this, mode) ==
  IF mode.type = "TE"
  THEN mode.m >= 0 /\ mode.n >= 0 /\ ~(mode.m = 0 /\ mode.n = 0)
  ELSE IF mode.type = "TM" THEN mode.m >= 1 /\ mode.n >= 1
  ELSE FALSE

CircularWaveguide_isModeSupported(this, mode) ==
  IF mode.type \in {"TE", "TM"} THEN mode.n >= 0 /\ mode.m >= 1 ELSE FALSE

CoaxialWaveguide_isModeSupported(this, mode) ==
  IF mode.type = "TEM" THEN mode.m = 0 /\ mode.n = 0
  ELSE IF mode.type \in {"TE", "TM"} THEN mode.n >= 0 /\ mode.m >= 1
  ELSE FALSE

isModeSupported(this, mode) ==
  CASE this.type = "rectangular" -> RectangularWaveguide_isModeSupported(this, mode)
    [] this.type = "circular" -> CircularWaveguide_isModeSupported(this, mode)
    [] this.type = "coaxial" -> CoaxialWaveguide_isModeSupported(this, mode)

RECURSIVE Loop2(_, _, _, _, _, _)
\* the modes pushed by: for (o = o..oHi) for (i = i..iHi) push(make[o, i]),
\* the inner loop restarting at iLo
Loop2(type, o, oHi, i, iLo, iHi) ==
  IF o > oHi THEN << >>
  ELSE IF i > iHi THEN Loop2(type, o + 1, oHi, iLo, iLo, iHi)
  ELSE <<[type |-> type, o |-> o, i |-> i]>> \o Loop2(type, o, oHi, i + 1, iLo, iHi)

\* the sign of x - y as the sort sees it; a NaN difference counts as 0
SignOfDifference(x, y) ==
  IF IsNaN(x) \/ IsNaN(y) THEN 0
  ELSE IF IsInf(x) /\ IsInf(y) /\ x.n = y.n THEN 0
  ELSE Cmp(x, y)

\* the sign of the comparator (a, b) => fc(a) - fc(b)
CompareByCutoff(this, a, b) ==
  SignOfDifference(getCutoffFrequency(this, a), getCutoffFrequency(this, b))

RECURSIVE InsertSorted_beforeEqual(_, _, _)
\* variant: e goes before the elements that compare equal to it (not stable)
InsertSorted_beforeEqual(this, s, e) ==
  IF s = << >> THEN <<e>>
  ELSE IF CompareByCutoff(this, s[Len(s)], e) >= 0
  THEN InsertSorted_beforeEqual(this, SubSeq(s, 1, Len(s) - 1), e) \o <<s[Len(s)]>>
  ELSE s \o <<e>>

RECURSIVE InsertSorted(_, _, _)
\* s, sorted, with e inserted after every element that does not compare above it
InsertSorted(this, s, e) ==
  IF s = << >> THEN <<e>>
  ELSE IF CompareByCutoff(this, s[Len(s)], e) > 0
  THEN InsertSorted(this, SubSeq(s, 1, Len(s) - 1), e) \o <<s[Len(s)]>>
  ELSE s \o <<e>>

RECURSIVE SortFrom(_, _, _)
SortFrom(this, sorted, rest) ==
  IF rest = << >> THEN sorted
  ELSE SortFrom(this, InsertSorted(this, sorted, Head(rest)), Tail(rest))

\* Array.prototype.sort with the cutoff comparator: a stable sort
SortByCutoff(this, modes) == SortFrom(this, << >>, modes)

\* the modes in the order the loops push them, before sorting
RectangularWaveguide_enumerate ==
  LET te == Loop2("TE", 0, 3, 0, 0, 3)
      tm == Loop2("TM", 1, 3, 1, 1, 3)
      all == SelectSeq(te, LAMBDA e : ~(e.o = 0 /\ e.i = 0)) \o tm
  IN  [j \in 1..Len(all) |-> Mode(all[j].type, all[j].o, all[j].i)]

CircularWaveguide_enumerate ==
  LET all == Loop2("TE", 0, 3, 1, 1, 3) \o Loop2("TM", 0, 3, 1, 1, 3)
  IN  [j \in 1..Len(all) |-> Mode(all[j].type, all[j].i, all[j].o)]

CoaxialWaveguide_enumerate ==
  LET all == Loop2("TE", 0, 2, 1, 1, 2) \o Loop2("TM", 0, 2, 1, 1, 2)
  IN  <<Mode("TEM", 0, 0)>> \o [j \in 1..Len(all) |-> Mode(all[j].type, all[j].i, all[j].o)]

enumerate(this) ==
  CASE this.type = "rectangular" -> RectangularWaveguide_enumerate
    [] this.type = "circular" -> CircularWaveguide_enumerate
    [] this.type = "coaxial" -> CoaxialWaveguide_enumerate

getAvailableModes(this) == SortByCutoff(this, enumerate(this))

-----------------------------------------------------------------------------
(* Waveguide (abstract base): shared derived parameters                    *)

\* (2 * Math.PI * frequency) / CONSTANTS.c
WaveNumber(frequency) == Div(Mul(TwoPi, frequency), C)

\* the branch of getPropagationConstant that is taken: frequency <= fc
EvanescentBranch(frequency, fc) == LE(frequency, fc)

\* the value returned from fc, k and kc: alpha when frequency <= fc, beta otherwise
PropagationConstantOf(frequency, fc, k, kc) ==
  IF IsThrow(fc) THEN fc
  ELSE IF EvanescentBranch(frequency, fc) THEN SqrtDiffSq(kc, k)
  ELSE SqrtDiffSq(k, kc)

getPropagationConstant(this, frequency, mode) ==
  PropagationConstantOf(frequency, getCutoffFrequency(this, mode),
                        WaveNumber(frequency), getCutoffWavenumber(this, mode))

\* Math.sqrt(1 - Math.pow(fc / frequency, 2))
DispersionFactor(fc, frequency) == SqrtDiffSq(One, Div(fc, frequency))

\* variant: the boundary frequency = fc counts as propagating
IsPropagating_atCutoffToo(frequency, fc) == GE(frequency, fc)

\* frequency > fc
IsPropagating(frequency, fc) == GT(frequency, fc)

\* variant: no branch for TEM, whose impedance keeps its initial 0
ModalImpedance_noTEM(type, s) ==
  IF type = "TE" THEN Div(ETA0, s)
  ELSE IF type = "TM" THEN Mul(ETA0, s)
  ELSE Zero

\* the impedance chosen by mode family, inside the propagating branch
\* s is Math.sqrt(1 - Math.pow(fc / frequency, 2))
ModalImpedance(type, s) ==
  IF type = "TE" THEN Div(ETA0, s)
  ELSE IF type = "TM" THEN Mul(ETA0, s)
  ELSE IF type = "TEM" THEN ETA0
  ELSE Zero

\* variant: the free-space wavenumber in place of beta
PhaseConstant_freeSpace(k, kc) == k

\* beta = Math.sqrt(k * k - kc * kc), inside the propagating branch
PhaseConstant(k, kc) == SqrtDiffSq(k, kc)

\* variant: the group velocity computed like the phase velocity
CalculatedParams_groupLikePhase(type, frequency, fc, isPropagatif, beta, s) ==
  [k |-> "params",
   cutoffFrequency |-> fc,
   cutoffWavelength |-> Div(C, fc),
   propagationConstant |-> IF isPropagatif THEN beta ELSE Zero,
   phaseVelocity |-> IF isPropagatif THEN Div(C, s) ELSE Zero,
   groupVelocity |-> IF isPropagatif THEN Div(C, s) ELSE Zero,
   wavelengthGuide |-> IF isPropagatif THEN Div(Div(C, frequency), s) ELSE Zero,
   impedance |-> IF isPropagatif THEN ModalImpedance(type, s) ELSE Zero,
   isPropagatif |-> isPropagatif]

\* the bundle, from fc, the flag, and the values of the propagating branch
CalculatedParams(type, frequency, fc, isPropagatif, beta, s) ==
  [k |-> "params",
   cutoffFrequency |-> fc,
   cutoffWavelength |-> Div(C, fc),
   propagationConstant |-> IF isPropagatif THEN beta ELSE Zero,
   phaseVelocity |-> IF isPropagatif THEN Div(C, s) ELSE Zero,
   groupVelocity |-> IF isPropagatif THEN Mul(C, s) ELSE Zero,
   wavelengthGuide |-> IF isPropagatif THEN Div(Div(C, frequency), s) ELSE Zero,
   impedance |-> IF isPropagatif THEN ModalImpedance(type, s) ELSE Zero,
   isPropagatif |-> isPropagatif]

\* the bundle once fc is known; a cutoff that threw is passed on
CalculatedParamsFrom(this, frequency, mode, fc) ==
  IF IsThrow(fc) THEN fc
  ELSE CalculatedParams(
         mode.type, frequency, fc, IsPropagating(frequency, fc),
         PhaseConstant(WaveNumber(frequency), getCutoffWavenumber(this, mode)),
         DispersionFactor(fc, frequency))

getCalculatedParams(this, frequency, mode) ==
  CalculatedParamsFrom(this, frequency, mode, getCutoffFrequency(this, mode))

-----------------------------------------------------------------------------
(* Field distributions.  Trigonometric and Bessel values are terms.        *)

Cos(x) == Sym("cos", <<x>>)

Sin(x) == Sym("sin", <<x>>)

Atan2(y, x) == Sym("atan2", <<y, x>>)

Log(x) == Sym("log", <<x>>)

\* besselJ(n, x): the closed form at x = 0, a term elsewhere
besselJ(n, x) ==
  IF IsZero(x) THEN (IF n = 0 THEN One ELSE Zero) ELSE Sym("besselJ", <<Num(n), x>>)

besselJPrime(n, x) ==
  IF n = 0 THEN Neg(besselJ(1, x))
  ELSE Mul(Rat(1, 2), Sub(besselJ(n - 1, x), besselJ(n + 1, x)))

\* variant: only x < 0 gives the sentinel, x = 0 goes on to the series
besselY_strictlyNegative(n, x) ==
  IF ~IsSym(x) /\ LT(x, Zero) THEN NegInf ELSE Sym("besselY", <<Num(n), x>>)

\* besselY(n, x): the -Infinity sentinel for x <= 0, a term elsewhere
besselY(n, x) ==
  IF ~IsSym(x) /\ LE(x, Zero) THEN NegInf ELSE Sym("besselY", <<Num(n), x>>)

besselYPrime(n, x) ==
  IF n = 0 THEN Neg(besselY(1, x))
  ELSE Mul(Rat(1, 2), Sub(besselY(n - 1, x), besselY(n + 1, x)))

RECURSIVE Prod(_)
\* the product f1 * f2 * ... * fn, left to right
Prod(fs) == IF Len(fs) = 1 THEN fs[1] ELSE Mul(Prod(SubSeq(fs, 1, Len(fs) - 1)), fs[Len(fs)])

\* x > 1e-10: every coordinate of the model is a multiple of 1/2 cm, for which
\* x > 1e-10 holds exactly when x > 0
AboveEps(x) == GT(x, Zero)

\* variant: the generating axial component put on the other field
Field_axialOnOtherField(Ex, Ey, Ez, Hx, Hy, Hz) ==
  [k |-> "field", E |-> [x |-> Ex, y |-> Ey, z |-> Hz], H |-> [x |-> Hx, y |-> Hy, z |-> Ez]]

Field(Ex, Ey, Ez, Hx, Hy, Hz) ==
  [k |-> "field", E |-> [x |-> Ex, y |-> Ey, z |-> Ez], H |-> [x |-> Hx, y |-> Hy, z |-> Hz]]

RectangularWaveguide_getTEFieldDistribution(this, x, y, m, n, kc, beta, omega, phaseFactor) ==
  LET kx == Div(Mul(Num(m), PI), this.a)
      ky == Div(Mul(Num(n), PI), this.b)
      cosKxX == Cos(Mul(kx, x))
      sinKxX == Sin(Mul(kx, x))
      cosKyY == Cos(Mul(ky, y))
      sinKyY == Sin(Mul(ky, y))
      Hz == Prod(<<cosKxX, cosKyY, phaseFactor>>)
      invKc2 == Div(One, Mul(kc, kc))
      ZTE == Div(Mul(omega, MU0), beta)
      Ex == Prod(<<invKc2, omega, MU0, ky, cosKxX, sinKyY, phaseFactor>>)
      Ey == Prod(<<Neg(invKc2), omega, MU0, kx, sinKxX, cosKyY, phaseFactor>>)
      Hx == Prod(<<invKc2, beta, kx, sinKxX, cosKyY, phaseFactor>>)
      Hy == Prod(<<invKc2, beta, ky, cosKxX, sinKyY, phaseFactor>>)
      visualNorm == Div(One, Mul(ZTE, kc))
  IN  Field(Mul(Ex, visualNorm), Mul(Ey, visualNorm), Zero,
            Mul(Hx, visualNorm), Mul(Hy, visualNorm), Mul(Hz, visualNorm))

RectangularWaveguide_getTMFieldDistribution(this, x, y, m, n, kc, beta, omega, phaseFactor) ==
  LET kx == Div(Mul(Num(m), PI), this.a)
      ky == Div(Mul(Num(n), PI), this.b)
      cosKxX == Cos(Mul(kx, x))
      sinKxX == Sin(Mul(kx, x))
      cosKyY == Cos(Mul(ky, y))
      sinKyY == Sin(Mul(ky, y))
      Ez == Prod(<<sinKxX, sinKyY, phaseFactor>>)
      invKc2 == Div(One, Mul(kc, kc))
      ZTM == Div(beta, Mul(omega, EPS0))
      Ex == Prod(<<Neg(invKc2), beta, kx, cosKxX, sinKyY, phaseFactor>>)
      Ey == Prod(<<Neg(invKc2), beta, ky, sinKxX, cosKyY, phaseFactor>>)
      Hx == Prod(<<invKc2, omega, EPS0, ky, sinKxX, cosKyY, phaseFactor>>)
      Hy == Prod(<<Neg(invKc2), omega, EPS0, kx, cosKxX, sinKyY, phaseFactor>>)
      visualNorm == Div(One, Mul(ZTM, kc))
  IN  Field(Mul(Ex, visualNorm), Mul(Ey, visualNorm), Mul(Ez, visualNorm),
            Mul(Hx, visualNorm), Mul(Hy, visualNorm), Zero)

\* variant: the test against the wall xLocal = a is missing
RectangularWaveguide_isOutside_noRightWall(this, xLocal, yLocal) ==
  LT(xLocal, Zero) \/ LT(yLocal, Zero) \/ GT(yLocal, this.b)

\* xLocal < 0 || xLocal > this.a || yLocal < 0 || yLocal > this.b
RectangularWaveguide_isOutside(this, xLocal, yLocal) ==
  LT(xLocal, Zero) \/ GT(xLocal, this.a) \/ LT(yLocal, Zero) \/ GT(yLocal, this.b)

\* the dispatch on mode.type once kc, beta, omega and phaseFactor are known
RectangularWaveguide_fieldByType(this, xLocal, yLocal, mode, kc, beta, omega, phaseFactor) ==
  IF mode.type = "TE"
  THEN RectangularWaveguide_getTEFieldDistribution(
         this, xLocal, yLocal, mode.m, mode.n, kc, beta, omega, phaseFactor)
  ELSE IF mode.type = "TM"
  THEN RectangularWaveguide_getTMFieldDistribution(
         this, xLocal, yLocal, mode.m, mode.n, kc, beta, omega, phaseFactor)
  ELSE ZeroField

\* the body from the local coordinates and the params bundle
RectangularWaveguide_fieldAt(this, xLocal, yLocal, z, mode, frequency, time, params) ==
  IF RectangularWaveguide_isOutside(this, xLocal, yLocal) THEN ZeroField
  ELSE IF ~params.isPropagatif THEN ZeroField
  ELSE RectangularWaveguide_fieldByType(
         this, xLocal, yLocal, mode, getCutoffWavenumber(this, mode),
         params.propagationConstant, Mul(TwoPi, frequency),
         Cos(Sub(time, Mul(params.propagationConstant, z))))

RectangularWaveguide_getFieldDistribution(this, x, y, z, mode, frequency, time) ==
  RectangularWaveguide_fieldAt(
    this, Add(x, Div(this.a, Num(2))), Add(y, Div(this.b, Num(2))), z, mode,
    frequency, time, getCalculatedParams(this, frequency, mode))

\* the cylindrical components (Erho, Ephi, Hrho, Hphi) turned to Cartesian and
\* scaled by visualNorm, with the given axial components
FromCylindrical(Erho, Ephi, Ez, Hrho, Hphi, Hz, cosPhi, sinPhi, visualNorm) ==
  Field(Mul(Sub(Mul(Erho, cosPhi), Mul(Ephi, sinPhi)), visualNorm),
        Mul(Add(Mul(Erho, sinPhi), Mul(Ephi, cosPhi)), visualNorm),
        Ez,
        Mul(Sub(Mul(Hrho, cosPhi), Mul(Hphi, sinPhi)), visualNorm),
        Mul(Add(Mul(Hrho, sinPhi), Mul(Hphi, cosPhi)), visualNorm),
        Hz)

CircularWaveguide_getTEFieldDistribution(this, rho, phi, x, y, n, p, kc, beta, omega, phaseFactor) ==
  LET chi == getBesselJPrimeZero(Num(n), Num(p))
      kcRho == Mul(kc, rho)
      JnAtBoundary == besselJ(n, chi)
      normFactor == Div(One, Sym("nonzeroOr1", <<JnAtBoundary>>))
      Jn == Mul(besselJ(n, kcRho), normFactor)
      JnPrime == Mul(besselJPrime(n, kcRho), normFactor)
      nPhi == Mul(Num(n), phi)
      Hz == Prod(<<Jn, Cos(nPhi), phaseFactor>>)
      ZTE == Div(Mul(omega, MU0), beta)
      commonFactor == Div(One, Mul(kc, kc))
      Erho == IF AboveEps(rho)
              THEN Prod(<<commonFactor, omega, MU0, Div(Num(n), rho), Jn, Sin(nPhi), phaseFactor>>)
              ELSE Zero
      Ephi == Prod(<<Neg(commonFactor), omega, MU0, kc, JnPrime, Cos(nPhi), phaseFactor>>)
      Hrho == Prod(<<commonFactor, beta, kc, JnPrime, Cos(nPhi), phaseFactor>>)
      Hphi == IF AboveEps(rho)
              THEN Prod(<<Neg(commonFactor), beta, Div(Num(n), rho), Jn, Sin(nPhi), phaseFactor>>)
              ELSE Zero
      cosPhi == IF AboveEps(rho) THEN Div(x, rho) ELSE One
      sinPhi == IF AboveEps(rho) THEN Div(y, rho) ELSE Zero
      visualNorm == Div(One, Mul(ZTE, kc))
  IN  FromCylindrical(Erho, Ephi, Zero, Hrho, Hphi, Mul(Hz, visualNorm),
                      cosPhi, sinPhi, visualNorm)

CircularWaveguide_getTMFieldDistribution(this, rho, phi, x, y, n, p, kc, beta, omega, phaseFactor) ==
  LET kcRho == Mul(kc, rho)
      JnMax == IF n = 0 THEN One ELSE Rat(1, 2)
      normFactor == Div(One, JnMax)
      Jn == Mul(besselJ(n, kcRho), normFactor)
      JnPrime == Mul(besselJPrime(n, kcRho), normFactor)
      nPhi == Mul(Num(n), phi)
      Ez == Prod(<<Jn, Cos(nPhi), phaseFactor>>)
      ZTM == Div(beta, Mul(omega, EPS0))
      commonFactor == Div(One, Mul(kc, kc))
      Erho == Prod(<<Neg(commonFactor), beta, kc, JnPrime, Cos(nPhi), phaseFactor>>)
      Ephi == IF AboveEps(rho)
              THEN Prod(<<commonFactor, beta, Div(Num(n), rho), Jn, Sin(nPhi), phaseFactor>>)
              ELSE Zero
      Hrho == IF AboveEps(rho)
              THEN Prod(<<commonFactor, omega, EPS0, Div(Num(n), rho), Jn, Sin(nPhi), phaseFactor>>)
              ELSE Zero
      Hphi == Prod(<<commonFactor, omega, EPS0, kc, JnPrime, Cos(nPhi), phaseFactor>>)
      cosPhi == IF AboveEps(rho) THEN Div(x, rho) ELSE One
      sinPhi == IF AboveEps(rho) THEN Div(y, rho) ELSE Zero
      visualNorm == Div(One, Mul(ZTM, kc))
  IN  FromCylindrical(Erho, Ephi, Mul(Ez, visualNorm), Hrho, Hphi, Zero,
                      cosPhi, sinPhi, visualNorm)

\* rho > this.radius
CircularWaveguide_isOutside(this, rho) == GT(rho, this.radius)

\* the dispatch on mode.type once kc, beta, omega and phaseFactor are known
CircularWaveguide_fieldByType(this, rho, phi, x, y, mode, kc, beta, omega, phaseFactor) ==
  IF mode.type = "TE"
  THEN CircularWaveguide_getTEFieldDistribution(
         this, rho, phi, x, y, mode.n, mode.m, kc, beta, omega, phaseFactor)
  ELSE IF mode.type = "TM"
  THEN CircularWaveguide_getTMFieldDistribution(
         this, rho, phi, x, y, mode.n, mode.m, kc, beta, omega, phaseFactor)
  ELSE ZeroField

\* phaseFactor = Math.cos(omega * time - beta * z), then the dispatch
CircularWaveguide_fieldWithPhase(this, rho, phi, x, y, z, mode, time, kc, beta, omega) ==
  CircularWaveguide_fieldByType(this, rho, phi, x, y, mode, kc, beta, omega,
                                Cos(Sub(Mul(omega, time), Mul(beta, z))))

\* the body from the polar coordinates and the params bundle
CircularWaveguide_fieldAt(this, rho, phi, x, y, z, mode, frequency, time, params) ==
  IF IsThrow(params) THEN params
  ELSE IF CircularWaveguide_isOutside(this, rho) THEN ZeroField
  ELSE IF ~params.isPropagatif THEN ZeroField
  ELSE CircularWaveguide_fieldWithPhase(
         this, rho, phi, x, y, z, mode, time, getCutoffWavenumber(this, mode),
         params.propagationConstant, Mul(TwoPi, frequency))

CircularWaveguide_getFieldDistribution(this, x, y, z, mode, frequency, time) ==
  CircularWaveguide_fieldAt(
    this, Sqrt(Add(Mul(x, x), Mul(y, y))), Atan2(y, x), x, y, z, mode, frequency,
    time, getCalculatedParams(this, frequency, mode))

CoaxialWaveguide_getTEMFieldDistribution(this, rho, x, y, phaseFactor) ==
  LET a == this.innerRadius
      b == this.outerRadius
      logRatio == Log(Div(b, a))
      V0 == Mul(a, logRatio)
      Erho == Mul(Div(V0, Mul(rho, logRatio)), phaseFactor)
      Hphi == Div(Erho, ETA0)
      cosPhi == Div(x, rho)
      sinPhi == Div(y, rho)
      visualNorm == One
  IN  Field(Prod(<<Erho, cosPhi, visualNorm>>), Prod(<<Erho, sinPhi, visualNorm>>), Zero,
            Prod(<<Neg(Hphi), sinPhi, visualNorm>>), Prod(<<Hphi, cosPhi, visualNorm>>), Zero)

\* the components once kc is known
CoaxialWaveguide_TEFieldWith(this, rho, phi, x, y, n, kc, beta, omega, phaseFactor) ==
  LET a == this.innerRadius
      kcRho == Mul(kc, rho)
      kcA == Mul(kc, a)
      Jn == besselJ(n, kcRho)
      Yn == besselY(n, kcRho)
      JnPrimeA == besselJPrime(n, kcA)
      YnPrimeA == besselYPrime(n, kcA)
      R == Sub(Mul(Jn, YnPrimeA), Mul(JnPrimeA, Yn))
      JnPrime == besselJPrime(n, kcRho)
      YnPrime == besselYPrime(n, kcRho)
      RPrime == Mul(Sub(Mul(JnPrime, YnPrimeA), Mul(JnPrimeA, YnPrime)), kc)
      nPhi == Mul(Num(n), phi)
      Hz == Prod(<<R, Cos(nPhi), phaseFactor>>)
      ZTE == Div(Mul(omega, MU0), beta)
      factor == Div(One, Mul(kc, kc))
      Erho == IF AboveEps(rho)
              THEN Prod(<<factor, omega, MU0, Div(Num(n), rho), R, Sin(nPhi), phaseFactor>>)
              ELSE Zero
      Ephi == Div(Prod(<<Neg(factor), omega, MU0, RPrime, Cos(nPhi), phaseFactor>>), kc)
      Hrho == Div(Prod(<<factor, beta, RPrime, Cos(nPhi), phaseFactor>>), kc)
      Hphi == IF AboveEps(rho)
              THEN Prod(<<Neg(factor), beta, Div(Num(n), rho), R, Sin(nPhi), phaseFactor>>)
              ELSE Zero
      cosPhi == IF AboveEps(rho) THEN Div(x, rho) ELSE One
      sinPhi == IF AboveEps(rho) THEN Div(y, rho) ELSE Zero
      visualNorm == Div(One, Mul(ZTE, kc))
  IN  FromCylindrical(Erho, Ephi, Zero, Hrho, Hphi, Mul(Hz, visualNorm),
                      cosPhi, sinPhi, visualNorm)

CoaxialWaveguide_getTEFieldDistribution(this, rho, phi, x, y, m, n, beta, omega, phaseFactor) ==
  CoaxialWaveguide_TEFieldWith(
    this, rho, phi, x, y, n,
    CoaxialWaveguide_getCutoffWavenumber(this, Mode("TE", m, n)),
    beta, omega, phaseFactor)

\* the components once kc is known
CoaxialWaveguide_TMFieldWith(this, rho, phi, x, y, n, kc, beta, omega, phaseFactor) ==
  LET a == this.innerRadius
      kcRho == Mul(kc, rho)
      kcA == Mul(kc, a)
      Jn == besselJ(n, kcRho)
      Yn == besselY(n, kcRho)
      JnA == besselJ(n, kcA)
      YnA == besselY(n, kcA)
      R == Sub(Mul(Jn, YnA), Mul(JnA, Yn))
      JnPrime == besselJPrime(n, kcRho)
      YnPrime == besselYPrime(n, kcRho)
      RPrime == Mul(Sub(Mul(JnPrime, YnA), Mul(JnA, YnPrime)), kc)
      nPhi == Mul(Num(n), phi)
      Ez == Prod(<<R, Cos(nPhi), phaseFactor>>)
      ZTM == Div(beta, Mul(omega, EPS0))
      factor == Div(One, Mul(kc, kc))
      Erho == Div(Prod(<<Neg(factor), beta, RPrime, Cos(nPhi), phaseFactor>>), kc)
      Ephi == IF AboveEps(rho)
              THEN Prod(<<factor, beta, Div(Num(n), rho), R, Sin(nPhi), phaseFactor>>)
              ELSE Zero
      Hrho == IF AboveEps(rho)
              THEN Prod(<<factor, omega, EPS0, Div(Num(n), rho), R, Sin(nPhi), phaseFactor>>)
              ELSE Zero
      Hphi == Div(Prod(<<factor, omega, EPS0, RPrime, Cos(nPhi), phaseFactor>>), kc)
      cosPhi == IF AboveEps(rho) THEN Div(x, rho) ELSE One
      sinPhi == IF AboveEps(rho) THEN Div(y, rho) ELSE Zero
      visualNorm == Div(One, Mul(ZTM, kc))
  IN  FromCylindrical(Erho, Ephi, Mul(Ez, visualNorm), Hrho, Hphi, Zero,
                      cosPhi, sinPhi, visualNorm)

CoaxialWaveguide_getTMFieldDistribution(this, rho, phi, x, y, m, n, beta, omega, phaseFactor) ==
  CoaxialWaveguide_TMFieldWith(
    this, rho, phi, x, y, n,
    CoaxialWaveguide_getCutoffWavenumber(this, Mode("TM", m, n)),
    beta, omega, phaseFactor)

\* rho < this.innerRadius || rho > this.outerRadius
CoaxialWaveguide_isOutside(this, rho) ==
  LT(rho, this.innerRadius) \/ GT(rho, this.outerRadius)

\* variant: the TEM mode is zeroed like the others
CoaxialWaveguide_isZeroedAsEvanescent_anyType(type, params) == ~params.isPropagatif

\* type !== 'TEM' && !params.isPropagatif
CoaxialWaveguide_isZeroedAsEvanescent(type, params) ==
  type # "TEM" /\ ~params.isPropagatif

\* the dispatch on mode.type once beta, omega and phaseFactor are known
CoaxialWaveguide_fieldByType(this, rho, phi, x, y, mode, beta, omega, phaseFactor) ==
  IF mode.type = "TEM"
  THEN CoaxialWaveguide_getTEMFieldDistribution(this, rho, x, y, phaseFactor)
  ELSE IF mode.type = "TE"
  THEN CoaxialWaveguide_getTEFieldDistribution(
         this, rho, phi, x, y, mode.m, mode.n, beta, omega, phaseFactor)
  ELSE IF mode.type = "TM"
  THEN CoaxialWaveguide_getTMFieldDistribution(
         this, rho, phi, x, y, mode.m, mode.n, beta, omega, phaseFactor)
  ELSE ZeroField

\* omega = 2 * Math.PI * frequency and phaseFactor = Math.cos(time - beta * z),
\* then the dispatch
CoaxialWaveguide_fieldWithPhase(this, rho, phi, x, y, z, mode, frequency, time, beta) ==
  CoaxialWaveguide_fieldByType(this, rho, phi, x, y, mode, beta,
                               Mul(TwoPi, frequency), Cos(Sub(time, Mul(beta, z))))

\* the body for a point between the conductors, from the params bundle
CoaxialWaveguide_fieldInside(this, rho, phi, x, y, z, mode, frequency, time, params) ==
  IF CoaxialWaveguide_isZeroedAsEvanescent(mode.type, params) THEN ZeroField
  ELSE CoaxialWaveguide_fieldWithPhase(
         this, rho, phi, x, y, z, mode, frequency, time,
         IF mode.type = "TEM" THEN WaveNumber(frequency)
         ELSE params.propagationConstant)

\* the body from rho
CoaxialWaveguide_fieldAt(this, rho, x, y, z, mode, frequency, time) ==
  IF CoaxialWaveguide_isOutside(this, rho) THEN ZeroField
  ELSE CoaxialWaveguide_fieldInside(
         this, rho, Atan2(y, x), x, y, z, mode, frequency, time,
         getCalculatedParams(this, frequency, mode))

CoaxialWaveguide_getFieldDistribution(this, x, y, z, mode, frequency, time) ==
  CoaxialWaveguide_fieldAt(this, Sqrt(Add(Mul(x, x), Mul(y, y))), x, y, z, mode,
                           frequency, time)

getFieldDistribution(this, x, y, z, mode, frequency, time) ==
  CASE this.type = "rectangular" ->
         RectangularWaveguide_getFieldDistribution(this, x, y, z, mode, frequency, time)
    [] this.type = "circular" ->
         CircularWaveguide_getFieldDistribution(this, x, y, z, mode, frequency, time)
    [] this.type = "coaxial" ->
         CoaxialWaveguide_getFieldDistribution(this, x, y, z, mode, frequency, time)

-----------------------------------------------------------------------------
(* The engine as a state machine: a caller that constructs waveguides and  *)
(* calls their methods, one call at a time.  guide is the instance the     *)
(* caller holds, call the operation in progress with its arguments, ret    *)
(* what it returned or threw; the caller takes the result before its next  *)
(* call.                                                                   *)

\* dimensions passed to constructors: -1 .. MaxDim cm, NaN and the infinities
MaxDim == 3

\* mode indices m, n passed to methods: 0 .. MaxIdx
MaxIdx == 2

Dims == {Num(i) : i \in -1..MaxDim} \cup {NaN, PosInf, NegInf}

Modes == {Mode(type, m, n) : type \in ModeType \ {"EH"}, m \in 0..MaxIdx, n \in 0..MaxIdx}

\* modes of every family, for the support predicate
AllModes == {Mode(type, m, n) : type \in ModeType, m \in 0..MaxIdx, n \in 0..MaxIdx}

\* Bessel orders passed to the zero lookups: -1 .. MaxOrder
MaxOrder == 5

\* root indices passed to the zero lookups: -1 .. MaxRoot
MaxRoot == 6

\* a fraction below 0, between 0 and 1, and above 1
Fractions == {Rat(-1, 2), Rat(1, 2), Rat(3, 2)}

BesselOrders == {Num(i) : i \in -1..MaxOrder} \cup Fractions \cup {NaN, PosInf, NegInf}

BesselRoots == {Num(i) : i \in -1..MaxRoot} \cup Fractions \cup {NaN, PosInf, NegInf}

\* arguments x of besselY
BesselArguments == {Num(i) : i \in -2..2} \cup Fractions \cup {NaN, PosInf, NegInf}

\* frequencies in GHz: negative, zero, low, high, and the mode's own cutoff
\* frequency when it has one
FrequenciesWith(fc) ==
  {Num(-5), Zero, Num(10), Num(200)} \cup (IF IsThrow(fc) THEN {} ELSE {fc})

Frequencies(this, mode) == FrequenciesWith(getCutoffFrequency(this, mode))

\* transverse coordinates in cm
XCoords == {Rat(i, 2) : i \in {-4, -1, 0, 1, 2, 3}}

YCoords == {Rat(i, 2) : i \in {-2, 0, 1}}

\* axial position and time
ZTs == {Zero, One}

-----------------------------------------------------------------------------
(* The simulation store (hooks/usePropagationDraw.ts, lines 930-1080),     *)
(* lengths in cm and frequencies in GHz as in the engine above.  The       *)
(* standard dimensions are replaced by short ones of the same shape: WR-90 *)
(* is 2.286 x 1.016 cm and the 50 ohm coaxial line 0.091 / 0.21 cm.        *)

WR90 == [a |-> Rat(9, 4), b |-> One]

COAX_50OHM == [innerRadius |-> One, outerRadius |-> Num(2)]

DEFAULT_RECTANGULAR == [type |-> "rectangular", a |-> WR90.a, b |-> WR90.b]

DEFAULT_CIRCULAR == [type |-> "circular", radius |-> One]

DEFAULT_COAXIAL ==
  [type |-> "coaxial", innerRadius |-> COAX_50OHM.innerRadius,
   outerRadius |-> COAX_50OHM.outerRadius]

DEFAULT_MODE == Mode("TE", 1, 0)

DEFAULT_FREQUENCY == Num(10)

MIN_FREQUENCY == Rat(1, 1000)

MAX_FREQUENCY == Num(1000)

\* typeof value === 'number' && isFinite(value) && !isNaN(value) && value > 0
isValidPositiveNumber(value) ==
  value.k # "undefined" /\ isFinite(value) /\ ~IsNaN(value) /\ GT(value, Zero)

\* variant: only the upper limit is applied
clamp_upperOnly(value, min, max) == Min(max, value)

\* Math.max(min, Math.min(max, value))
clamp(value, min, max) == Max(min, Min(max, value))

\* params.<field>, undefined when the object has no such field
Get(params, field) == IF field \in DOMAIN params THEN params[field] ELSE Undefined

\* { ...current, ...params }
Spread(current, params) ==
  [f \in DOMAIN current \cup DOMAIN params |->
     IF f \in DOMAIN params THEN params[f] ELSE current[f]]

createWaveguideInstance(params) ==
  CASE params.type = "rectangular" ->
         RectangularWaveguide([a |-> Get(params, "a"), b |-> Get(params, "b")])
    [] params.type = "circular" ->
         CircularWaveguide([radius |-> Get(params, "radius")])
    [] params.type = "coaxial" ->
         CoaxialWaveguide([innerRadius |-> Get(params, "innerRadius"),
                           outerRadius |-> Get(params, "outerRadius")])
    [] OTHER -> RectangularWaveguide(WR90)

\* set({ calculatedParams }) unless getCalculatedParams threw
SetCalculatedParams(state, calculatedParams) ==
  IF IsThrow(calculatedParams) THEN state
  ELSE [state EXCEPT !.calculatedParams = calculatedParams]

\* the store after updateCalculatedParams(); an exception of
\* getCalculatedParams leaves the store as it was and goes to the caller
updateCalculatedParams(state) ==
  SetCalculatedParams(state,
    getCalculatedParams(state.waveguideInstance, state.frequency, state.mode))

\* what updateCalculatedParams() throws, if anything
updateThrows(state) ==
  IsThrow(getCalculatedParams(state.waveguideInstance, state.frequency, state.mode))

\* the store at module load, after the first updateCalculatedParams()
InitialStore ==
  updateCalculatedParams(
    [waveguide |-> DEFAULT_RECTANGULAR,
     mode |-> DEFAULT_MODE,
     frequency |-> DEFAULT_FREQUENCY,
     time |-> Zero,
     isAnimating |-> FALSE,
     calculatedParams |-> [k |-> "null"],
     waveguideInstance |-> createWaveguideInstance(DEFAULT_RECTANGULAR).this])

\* new Map([[0, 1], [1, 1]]) (utils/canvas.ts, lines 642-645)
InitialFactorialCache == (0 :> 1) @@ (1 :> 1)

\* the refs of the animation hook: frameRef (0: no frame requested yet, 1:
\* the handle of the latest request), lastTimeRef and phaseRef; whether the
\* requested frame is still pending in the browser; the page's clock in ms,
\* positive once the hook is mounted; and, as history, the timestamp of the
\* previous frame of the running period (-1 before its first frame) and of
\* the latest frame of any period (-1 before the first)
InitialAnimation ==
  [frame |-> 0, pending |-> FALSE, lastTime |-> 0, phase |-> Zero,
   now |-> 1, previous |-> -1, latest |-> -1]

NoGuide == [type |-> "none"]

NoCall == [op |-> "none"]

NoResult == [k |-> "none"]

Init ==
  /\ guide = NoGuide
  /\ call = NoCall
  /\ ret = NoResult
  /\ factorialCache = InitialFactorialCache
  /\ store = InitialStore
  /\ animation = InitialAnimation

\* the caller keeps the new instance, or what it had if the constructor threw
Constructed(op, params, r) ==
  /\ call = NoCall
  /\ call' = [op |-> op, params |-> params]
  /\ ret' = r
  /\ guide' = IF r.k = "ok" THEN r.this ELSE guide
  /\ UNCHANGED uiVars

NewRectangularWaveguide ==
  \E a \in Dims, b \in Dims :
    LET params == [a |-> a, b |-> b]
    IN  Constructed("new RectangularWaveguide", params, RectangularWaveguide(params))

NewCircularWaveguide ==
  \E radius \in Dims :
    LET params == [radius |-> radius]
    IN  Constructed("new CircularWaveguide", params, CircularWaveguide(params))

NewCoaxialWaveguide ==
  \E innerRadius \in Dims, outerRadius \in Dims :
    LET params == [innerRadius |-> innerRadius, outerRadius |-> outerRadius]
    IN  Constructed("new CoaxialWaveguide", params, CoaxialWaveguide(params))

\* the value a number-returning method hands back, or what it threw
Returned(v) == IF IsThrow(v) THEN v ELSE [k |-> "number", value |-> v]

CallGetBesselJZero ==
  /\ call = NoCall
  /\ \E n \in BesselOrders, p \in BesselRoots :
       /\ call' = [op |-> "getBesselJZero", n |-> n, p |-> p,
                   steps |-> BesselZeroSteps(BESSEL_J_ZEROS, n, p)]
       /\ ret' = Returned(getBesselJZero(n, p))
  /\ UNCHANGED guide
  /\ UNCHANGED uiVars

CallGetBesselJPrimeZero ==
  /\ call = NoCall
  /\ \E n \in BesselOrders, p \in BesselRoots :
       /\ call' = [op |-> "getBesselJPrimeZero", n |-> n, p |-> p,
                   steps |-> BesselZeroSteps(BESSEL_J_PRIME_ZEROS, n, p)]
       /\ ret' = Returned(getBesselJPrimeZero(n, p))
  /\ UNCHANGED guide
  /\ UNCHANGED uiVars

CallBesselY ==
  /\ call = NoCall
  /\ \E n \in 0..MaxOrder, x \in BesselArguments :
       /\ call' = [op |-> "besselY", n |-> n, x |-> x]
       /\ ret' = Returned(besselY(n, x))
  /\ UNCHANGED guide
  /\ UNCHANGED uiVars

CallGetCutoffFrequency ==
  /\ call = NoCall
  /\ guide # NoGuide
  /\ \E mode \in Modes :
       /\ call' = [op |-> "getCutoffFrequency", mode |-> mode]
       /\ ret' = Returned(getCutoffFrequency(guide, mode))
  /\ UNCHANGED guide
  /\ UNCHANGED uiVars

CallGetCutoffWavenumber ==
  /\ call = NoCall
  /\ guide # NoGuide
  /\ \E mode \in Modes :
       /\ call' = [op |-> "getCutoffWavenumber", mode |-> mode]
       /\ ret' = Returned(getCutoffWavenumber(guide, mode))
  /\ UNCHANGED guide
  /\ UNCHANGED uiVars

CallIsModeSupported ==
  /\ call = NoCall
  /\ guide # NoGuide
  /\ \E mode \in AllModes :
       /\ call' = [op |-> "isModeSupported", mode |-> mode]
       /\ ret' = [k |-> "boolean", value |-> isModeSupported(guide, mode)]
  /\ UNCHANGED guide
  /\ UNCHANGED uiVars

\* variant: the enumeration keeps its result on the instance
CallGetAvailableModes_caching ==
  /\ call = NoCall
  /\ guide # NoGuide
  /\ call' = [op |-> "getAvailableModes"]
  /\ ret' = [k |-> "modes", modes |-> getAvailableModes(guide)]
  /\ guide' = [f \in DOMAIN guide \cup {"modes"} |->
                 IF f = "modes" THEN getAvailableModes(guide) ELSE guide[f]]
  /\ UNCHANGED uiVars

CallGetAvailableModes ==
  /\ call = NoCall
  /\ guide # NoGuide
  /\ call' = [op |-> "getAvailableModes"]
  /\ ret' = [k |-> "modes", modes |-> getAvailableModes(guide)]
  /\ UNCHANGED guide
  /\ UNCHANGED uiVars

CallGetPropagationConstant ==
  /\ call = NoCall
  /\ guide # NoGuide
  /\ \E mode \in Modes :
       \E frequency \in Frequencies(guide, mode) :
         /\ call' = [op |-> "getPropagationConstant", frequency |-> frequency, mode |-> mode]
         /\ ret' = Returned(getPropagationConstant(guide, frequency, mode))
  /\ UNCHANGED guide
  /\ UNCHANGED uiVars

CallGetCalculatedParams ==
  /\ call = NoCall
  /\ guide # NoGuide
  /\ \E mode \in Modes :
       \E frequency \in Frequencies(guide, mode) :
         /\ call' = [op |-> "getCalculatedParams", frequency |-> frequency, mode |-> mode]
         /\ ret' = getCalculatedParams(guide, frequency, mode)
  /\ UNCHANGED guide
  /\ UNCHANGED uiVars

CallGetFieldDistribution ==
  /\ call = NoCall
  /\ guide # NoGuide
  /\ \E mode \in Modes, x \in XCoords, y \in YCoords, zt \in ZTs :
       \E frequency \in Frequencies(guide, mode) :
         /\ call' = [op |-> "getFieldDistribution", x |-> x, y |-> y, z |-> zt,
                     mode |-> mode, frequency |-> frequency, time |-> zt]
         /\ ret' = getFieldDistribution(guide, x, y, zt, mode, frequency, zt)
  /\ UNCHANGED guide
  /\ UNCHANGED uiVars

\* the caller takes the result of the call
TakeResult ==
  /\ call # NoCall
  /\ call' = NoCall
  /\ ret' = NoResult
  /\ UNCHANGED guide
  /\ UNCHANGED uiVars

Next ==
  \/ NewRectangularWaveguide
  \/ NewCircularWaveguide
  \/ NewCoaxialWaveguide
  \/ CallGetBesselJZero
  \/ CallGetBesselJPrimeZero
  \/ CallBesselY
  \/ CallGetCutoffFrequency
  \/ CallGetCutoffWavenumber
  \/ CallIsModeSupported
  \/ CallGetAvailableModes
  \/ CallGetPropagationConstant
  \/ CallGetCalculatedParams
  \/ CallGetFieldDistribution
  \/ TakeResult

Spec == Init /\ [][Next]_vars

-----------------------------------------------------------------------------
(* Properties                                                              *)

FieldCall == call.op = "getFieldDistribution"

ParamsCall == call.op = "getCalculatedParams" /\ ret.k = "params"

\* the transverse radius of the point of the call
CallRho == Sqrt(Add(Mul(call.x, call.x), Mul(call.y, call.y)))

\* the point of the call lies strictly outside the cross-section of the guide
StrictlyOutside ==
  CASE guide.type = "rectangular" ->
         \/ GT(Abs(call.x), Div(guide.a, Num(2)))
         \/ GT(Abs(call.y), Div(guide.b, Num(2)))
    [] guide.type = "circular" -> GT(CallRho, guide.radius)
    [] guide.type = "coaxial" ->
         LT(CallRho, guide.innerRadius) \/ GT(CallRho, guide.outerRadius)

\* the cutoff frequency of the mode of the call
CallCutoff == getCutoffFrequency(guide, call.mode)

\* C1: for the three geometries, every supported mode, every frequency and
\* every time, getFieldDistribution at a point strictly outside the
\* cross-section returns E = (0,0,0) and H = (0,0,0) and does not throw.
C1_OutsideFieldIsZero ==
  (FieldCall /\ isModeSupported(guide, call.mode) /\ StrictlyOutside)
    => ret = ZeroField

\* a propagating rectangular mode evaluated beyond the wall x = a/2
C1_Witness ==
  /\ FieldCall
  /\ guide.type = "rectangular"
  /\ isModeSupported(guide, call.mode)
  /\ GT(call.x, Div(guide.a, Num(2)))
  /\ LE(Abs(call.y), Div(guide.b, Num(2)))
  /\ GT(call.frequency, CallCutoff)
  /\ ret = ZeroField

\* C2: at a point inside the cross-section the field is all zero whenever
\* frequency <= cutoff frequency, for rectangular modes, circular modes and
\* coaxial TE/TM modes; for the coaxial TEM mode the result is the value of the
\* TEM field equations at every frequency, frequency = 0 included.
C2_EvanescentZeroExceptTEM ==
  (FieldCall /\ ret.k = "field" /\ ~StrictlyOutside) =>
    /\ ( /\ guide.type = "coaxial" => call.mode.type \in {"TE", "TM"}
         /\ LE(call.frequency, CallCutoff) )
       => ret = ZeroField
    /\ (guide.type = "coaxial" /\ call.mode.type = "TEM")
       => ret = CoaxialWaveguide_getTEMFieldDistribution(
                  guide, CallRho, call.x, call.y,
                  Cos(Sub(call.time, Mul(WaveNumber(call.frequency), call.z))))

\* the coaxial TEM mode at frequency 0, between the conductors: not zeroed
C2_Witness ==
  /\ FieldCall
  /\ guide.type = "coaxial"
  /\ call.mode = Mode("TEM", 0, 0)
  /\ call.frequency = Zero
  /\ ~StrictlyOutside
  /\ ret.k = "field"
  /\ ret # ZeroField

\* a real number >= 0 (a "sqrtDiffSq" term is the root of a positive number)
IsNonNegativeReal(v) ==
  \/ IsFin(v) /\ GE(v, Zero)
  \/ IsSym(v) /\ v.op = "sqrtDiffSq"

\* C3: for every geometry, supported mode and frequency >= 0,
\* getCalculatedParams reports isPropagatif exactly when frequency > fc, and
\* getPropagationConstant returns sqrt(k^2 - kc^2) exactly then and
\* sqrt(kc^2 - k^2) otherwise, the radicand never negative and the value a
\* real number >= 0.
C3_StrictBoundaryRealValue ==
  /\ (ParamsCall /\ isModeSupported(guide, call.mode) /\ GE(call.frequency, Zero))
       => (ret.isPropagatif <=> GT(call.frequency, ret.cutoffFrequency))
  /\ ( /\ call.op = "getPropagationConstant"
       /\ isModeSupported(guide, call.mode)
       /\ GE(call.frequency, Zero) )
       => /\ ret.k = "number"
          /\ IsNonNegativeReal(ret.value)
          /\ ret.value =
               LET k == WaveNumber(call.frequency)
                   kc == getCutoffWavenumber(guide, call.mode)
               IN  IF GT(call.frequency, CallCutoff)
                   THEN SqrtDiffSq(k, kc) ELSE SqrtDiffSq(kc, k)

\* C4: when frequency <= cutoff frequency, getCalculatedParams returns
\* propagationConstant, phaseVelocity, groupVelocity, wavelengthGuide and
\* impedance equal to 0 and isPropagatif = false; cutoffFrequency and
\* cutoffWavelength carry the computed values.
C4_NeutralDefaultsBelowCutoff ==
  (ParamsCall /\ LE(call.frequency, CallCutoff)) =>
    /\ ret.propagationConstant = Zero
    /\ ret.phaseVelocity = Zero
    /\ ret.groupVelocity = Zero
    /\ ret.wavelengthGuide = Zero
    /\ ret.impedance = Zero
    /\ ret.isPropagatif = FALSE
    /\ ret.cutoffFrequency = CallCutoff
    /\ ret.cutoffWavelength = Div(C, CallCutoff)

\* a mode with a positive cutoff, queried exactly at its cutoff frequency
C4_Witness ==
  /\ ParamsCall
  /\ GT(CallCutoff, Zero)
  /\ call.frequency = CallCutoff
  /\ ret.isPropagatif = FALSE
  /\ ret.impedance = Zero

\* C5, as stated: for every geometry, mode and frequency,
\* getCalculatedParams(frequency, mode).propagationConstant equals
\* getPropagationConstant(frequency, mode), alpha = sqrt(kc^2 - k^2) included
\* when frequency <= cutoff frequency.
C5_BundleEqualsPropagationConstant ==
  (ParamsCall /\ isModeSupported(guide, call.mode) /\ GE(call.frequency, Zero)) =>
    ret.propagationConstant = getPropagationConstant(guide, call.frequency, call.mode)

\* C5, amended: the bundle's propagationConstant is the value of
\* getPropagationConstant only when the mode propagates (frequency > cutoff
\* frequency); when it does not, the field is 0 and not alpha.
C5_BundleBetaOnlyWhenPropagating ==
  ParamsCall =>
    /\ ret.isPropagatif =>
         ret.propagationConstant =
           getPropagationConstant(guide, call.frequency, call.mode)
    /\ ~ret.isPropagatif => ret.propagationConstant = Zero

\* strictly below cutoff: the bundle holds 0 while alpha is not 0; and a
\* propagating call elsewhere is covered by the first conjunct of the formula
C5_Witness ==
  /\ ParamsCall
  /\ LT(call.frequency, CallCutoff)
  /\ GE(call.frequency, Zero)
  /\ ret.propagationConstant = Zero
  /\ getPropagationConstant(guide, call.frequency, call.mode) # Zero

\* a dimension no constructor may accept: <= 0, infinite or NaN
InvalidDimension(v) == LE(v, Zero) \/ ~isFinite(v)

\* C6: constructing a CircularWaveguide with a negative, zero, infinite or NaN
\* radius fails with an error, and no instance is produced for such a radius.
C6_CircularRejectsInvalidRadius ==
  /\ (call.op = "new CircularWaveguide" /\ InvalidDimension(call.params.radius))
       => ret.k = "throw"
  /\ guide.type = "circular" => ~InvalidDimension(guide.radius)

\* C7: constructing a CoaxialWaveguide fails whenever innerRadius or
\* outerRadius is <= 0 or non-finite, or innerRadius >= outerRadius; every
\* instance constructed has 0 < innerRadius < outerRadius, both finite, and
\* stores the radii exactly as passed.
C7_CoaxialValidatesAndStores ==
  /\ call.op = "new CoaxialWaveguide" =>
       LET ri == call.params.innerRadius
           ro == call.params.outerRadius
       IN  /\ (InvalidDimension(ri) \/ InvalidDimension(ro) \/ GE(ri, ro))
                => ret.k = "throw"
           /\ ret.k = "ok" =>
                /\ ret.this.innerRadius = ri
                /\ ret.this.outerRadius = ro
                /\ guide = ret.this
  /\ guide.type = "coaxial" =>
       /\ isFinite(guide.innerRadius) /\ isFinite(guide.outerRadius)
       /\ GT(guide.innerRadius, Zero)
       /\ LT(guide.innerRadius, guide.outerRadius)

\* equal, otherwise valid radii are refused
C7_Witness ==
  /\ call.op = "new CoaxialWaveguide"
  /\ ~InvalidDimension(call.params.innerRadius)
  /\ call.params.innerRadius = call.params.outerRadius
  /\ ret.k = "throw"

\* C8: constructing a RectangularWaveguide fails whenever a or b is <= 0,
\* infinite or NaN, whatever the other dimension is, and the error is thrown
\* before any field of the instance is assigned; no instance holds a clamped
\* or defaulted dimension.
C8_RectangularRejectsBeforeAssigning ==
  /\ ( /\ call.op = "new RectangularWaveguide"
       /\ InvalidDimension(call.params.a) \/ InvalidDimension(call.params.b) )
       => /\ ret.k = "throw"
          /\ ret.this.a = Undefined
          /\ ret.this.b = Undefined
  /\ guide.type = "rectangular" =>
       ~InvalidDimension(guide.a) /\ ~InvalidDimension(guide.b)

\* a valid a with an invalid b is refused with nothing assigned
C8_Witness ==
  /\ call.op = "new RectangularWaveguide"
  /\ ~InvalidDimension(call.params.a)
  /\ InvalidDimension(call.params.b)
  /\ ret.k = "throw"
  /\ ret.this.a = Undefined

\* C9: for every pair of valid dimensions the instance stores
\* a = max(a_in, b_in) and b = min(a_in, b_in), so a >= b, and constructing
\* with (a, b) and with (b, a) gives identical dimensions.
C9_RectangularStoresMaxMin ==
  /\ ( /\ call.op = "new RectangularWaveguide"
       /\ ~InvalidDimension(call.params.a)
       /\ ~InvalidDimension(call.params.b) )
       => /\ ret.k = "ok"
          /\ ret.this.a = Max(call.params.a, call.params.b)
          /\ ret.this.b = Min(call.params.a, call.params.b)
          /\ ret.this =
               RectangularWaveguide([a |-> call.params.b, b |-> call.params.a]).this
          /\ guide = ret.this
  /\ guide.type = "rectangular" => GE(guide.a, guide.b)

\* the caller passed a < b and the instance holds them swapped
C9_Witness ==
  /\ call.op = "new RectangularWaveguide"
  /\ ret.k = "ok"
  /\ LT(call.params.a, call.params.b)
  /\ ret.this.a = call.params.b
  /\ ret.this.b = call.params.a

\* the guide was built from valid dimensions
ValidDimensions ==
  CASE guide.type = "rectangular" ->
         ~InvalidDimension(guide.a) /\ ~InvalidDimension(guide.b)
    [] guide.type = "circular" -> ~InvalidDimension(guide.radius)
    [] guide.type = "coaxial" ->
         /\ ~InvalidDimension(guide.innerRadius)
         /\ ~InvalidDimension(guide.outerRadius)
         /\ LT(guide.innerRadius, guide.outerRadius)

\* the position of mode e in the sequence s
IndexOf(s, e) == CHOOSE i \in 1..Len(s) : s[i] = e

\* C10: for every geometry and valid dimensions, getAvailableModes returns
\* the enumerated modes stably sorted by cutoff frequency: the same modes,
\* cutoff frequencies non-decreasing, and modes of equal cutoff frequency in
\* the order of the enumeration (TE before TM, outer index before inner).
C10_StableSortByCutoff ==
  (call.op = "getAvailableModes" /\ ValidDimensions) =>
    LET pushed == enumerate(guide)
        sorted == ret.modes
    IN  /\ Len(sorted) = Len(pushed)
        /\ \A e \in 1..Len(pushed) : \E i \in 1..Len(sorted) : sorted[i] = pushed[e]
        /\ \A i \in 1..Len(sorted) - 1 :
             LE(getCutoffFrequency(guide, sorted[i]),
                getCutoffFrequency(guide, sorted[i + 1]))
        /\ \A i \in 1..Len(sorted), j \in 1..Len(sorted) :
             ( /\ i < j
               /\ EQ(getCutoffFrequency(guide, sorted[i]),
                     getCutoffFrequency(guide, sorted[j])) )
               => IndexOf(pushed, sorted[i]) < IndexOf(pushed, sorted[j])

\* a square guide: TE01 and TE10 tie and stay in enumeration order, and
\* TE11 comes just before TM11
C10_Witness ==
  /\ call.op = "getAvailableModes"
  /\ guide.type = "rectangular"
  /\ guide.a = guide.b
  /\ ret.modes[1] = Mode("TE", 0, 1)
  /\ ret.modes[2] = Mode("TE", 1, 0)
  /\ ret.modes[3] = Mode("TE", 1, 1)
  /\ ret.modes[4] = Mode("TM", 1, 1)

TE10 == Mode("TE", 1, 0)

TE01 == Mode("TE", 0, 1)

ModesCall(type) == call.op = "getAvailableModes" /\ guide.type = type

\* C11 as stated: for every rectangular guide, the first mode returned by
\* getAvailableModes is TE10, and its cutoff is the lowest of the list.
C11_FirstModeIsTE10 ==
  ModesCall("rectangular") =>
    /\ ret.modes[1] = TE10
    /\ \A i \in 1..Len(ret.modes) :
         LE(getCutoffFrequency(guide, TE10), getCutoffFrequency(guide, ret.modes[i]))

\* C11, amended: for every rectangular guide the cutoff of TE10 is the lowest
\* of the list returned by getAvailableModes; TE10 is the first mode when
\* a > b, and for a square guide (a = b) TE01, which ties with TE10 and was
\* enumerated before it, is first and TE10 second.
C11_TE10LowestAndFirstUnlessSquare ==
  ModesCall("rectangular") =>
    /\ \A i \in 1..Len(ret.modes) :
         LE(getCutoffFrequency(guide, TE10), getCutoffFrequency(guide, ret.modes[i]))
    /\ GT(guide.a, guide.b) => ret.modes[1] = TE10
    /\ EQ(guide.a, guide.b) => (ret.modes[1] = TE01 /\ ret.modes[2] = TE10)

\* a guide with a > b whose list starts with TE10
C11_Witness ==
  /\ ModesCall("rectangular")
  /\ GT(guide.a, guide.b)
  /\ ret.modes[1] = TE10

\* C12: for every coaxial guide the TEM mode has cutoff frequency 0 and cutoff
\* wavenumber 0, and for every frequency > 0 getCalculatedParams reports it
\* propagating with propagation constant k = 2 pi f / c, phase velocity and
\* group velocity c, and impedance eta0.
C12_CoaxialTEMNoCutoffNoDispersion ==
  /\ guide.type = "coaxial" =>
       /\ getCutoffFrequency(guide, Mode("TEM", 0, 0)) = Zero
       /\ getCutoffWavenumber(guide, Mode("TEM", 0, 0)) = Zero
  /\ ( /\ ParamsCall
       /\ guide.type = "coaxial"
       /\ call.mode.type = "TEM"
       /\ GT(call.frequency, Zero) ) =>
       /\ ret.cutoffFrequency = Zero
       /\ ret.isPropagatif
       /\ ret.propagationConstant = WaveNumber(call.frequency)
       /\ ret.phaseVelocity = C
       /\ ret.groupVelocity = C
       /\ ret.impedance = ETA0

\* the TEM parameters of a coaxial guide at 10 GHz
C12_Witness ==
  /\ ParamsCall
  /\ guide.type = "coaxial"
  /\ call.mode = Mode("TEM", 0, 0)
  /\ call.frequency = Num(10)
  /\ ret.isPropagatif
  /\ ret.impedance = ETA0

\* the methods that only read the instance
Queries ==
  {"getCutoffFrequency", "getCutoffWavenumber", "isModeSupported", "getAvailableModes",
   "getPropagationConstant", "getCalculatedParams", "getFieldDistribution"}

\* what the query c returns on the instance this when nothing else has run
AloneResult(this, c) ==
  CASE c.op = "getCutoffFrequency" -> Returned(getCutoffFrequency(this, c.mode))
    [] c.op = "getCutoffWavenumber" -> Returned(getCutoffWavenumber(this, c.mode))
    [] c.op = "isModeSupported" -> [k |-> "boolean", value |-> isModeSupported(this, c.mode)]
    [] c.op = "getAvailableModes" -> [k |-> "modes", modes |-> getAvailableModes(this)]
    [] c.op = "getPropagationConstant" ->
         Returned(getPropagationConstant(this, c.frequency, c.mode))
    [] c.op = "getCalculatedParams" -> getCalculatedParams(this, c.frequency, c.mode)
    [] c.op = "getFieldDistribution" ->
         getFieldDistribution(this, c.x, c.y, c.z, c.mode, c.frequency, c.time)

\* the instances the constructors hand out
Instances ==
  {r.this : r \in {r \in {RectangularWaveguide([a |-> a, b |-> b]) : a \in Dims, b \in Dims}
                         \cup {CircularWaveguide([radius |-> radius]) : radius \in Dims}
                         \cup {CoaxialWaveguide([innerRadius |-> i, outerRadius |-> o]) :
                                 i \in Dims, o \in Dims} : r.k = "ok"}}

SupportCall(type) == call.op = "isModeSupported" /\ guide.type = type

\* C14: on a rectangular guide isModeSupported is true for TE exactly when
\* m >= 0, n >= 0 and not m = n = 0, true for TM exactly when m >= 1 and
\* n >= 1, false for every TEM, HE and EH mode, and every rectangular
\* instance gives the same answer for the same mode.
C14_RectangularSupportTable ==
  SupportCall("rectangular") =>
    /\ call.mode.type = "TE" =>
          (ret.value <=> (call.mode.m >= 0 /\ call.mode.n >= 0
                           /\ ~(call.mode.m = 0 /\ call.mode.n = 0)))
    /\ call.mode.type = "TM" => (ret.value <=> (call.mode.m >= 1 /\ call.mode.n >= 1))
    /\ call.mode.type \in {"TEM", "HE", "EH"} => ret.value = FALSE
    /\ \A g \in Instances :
         g.type = "rectangular" => isModeSupported(g, call.mode) = ret.value

\* a TM mode with one zero index is refused although the same TE mode is accepted
C14_Witness ==
  /\ SupportCall("rectangular")
  /\ call.mode = Mode("TM", 1, 0)
  /\ ret.value = FALSE
  /\ isModeSupported(guide, Mode("TE", 1, 0))

BesselZeroCall == call.op \in {"getBesselJZero", "getBesselJPrimeZero"}

\* the orders and root indices the lookups accept
ValidOrders == {Num(i) : i \in 0..MaxOrder}

ValidRoots == {Num(i) : i \in 1..MaxRoot}

StepsOf(c) == {c.steps[i] : i \in DOMAIN c.steps}

\* C15: a zero lookup whose order is negative or not an integer, or whose
\* root index is below 1 or not an integer, throws; it returns no number in
\* place of the bad argument and has read no table and run no iteration.
C15_InvalidZeroArgumentsThrow ==
  (BesselZeroCall /\ (call.n \notin ValidOrders \/ call.p \notin ValidRoots)) =>
    /\ IsThrow(ret)
    /\ StepsOf(call) \cap {"table", "warn", "iterate", "return"} = {}

\* a negative order with a valid root index, and a fractional root index
\* with a valid order, both refused
C15_Witness ==
  /\ BesselZeroCall
  /\ \/ call.n = Num(-1) /\ call.p = Num(1)
     \/ call.n = Num(0) /\ call.p = Rat(3, 2)
  /\ IsThrow(ret)

\* the table and the fallback of the lookup that was called
CallTable == IF call.op = "getBesselJZero" THEN BESSEL_J_ZEROS ELSE BESSEL_J_PRIME_ZEROS

CallFallback ==
  IF call.op = "getBesselJZero" THEN findBesselJZero(call.n.n, call.p.n)
  ELSE findBesselJPrimeZero(call.n.n, call.p.n)

ValidZeroCall == BesselZeroCall /\ call.n \in ValidOrders /\ call.p \in ValidRoots

\* C16: a zero lookup with valid arguments returns the table entry of row n,
\* position p - 1, without iterating when 0 <= n <= 4 and 1 <= p <= 5, and
\* the Newton-Raphson result otherwise; it never returns undefined.
C16_TabulatedOrNewton ==
  ValidZeroCall =>
    /\ ret.k = "number" /\ ret.value # Undefined
    /\ IF call.n.n <= 4 /\ call.p.n <= 5
       THEN /\ ret.value = CallTable[call.n.n + 1][call.p.n]
            /\ "iterate" \notin StepsOf(call)
       ELSE /\ ret.value = CallFallback
            /\ "iterate" \in StepsOf(call)

\* a tabulated row asked for its sixth zero goes to Newton-Raphson
C16_Witness ==
  /\ ValidZeroCall
  /\ call.n = Num(4) /\ call.p = Num(6)
  /\ ret.value = CallFallback

\* C18: besselY(n, x) with n >= 0 and x <= 0, x = 0 and -Infinity included,
\* returns -Infinity: it does not throw and the value is not one computed
\* by the series or the recurrence.
C18_BesselYSentinel ==
  (call.op = "besselY" /\ call.n >= 0 /\ call.x.k \in {"rat", "inf"} /\ call.x.n <= 0) =>
    ret = [k |-> "number", value |-> NegInf]

\* the sentinel at x = 0 for an order above 1, where the code would
\* otherwise run the recurrence
C18_Witness ==
  /\ call.op = "besselY"
  /\ call.n = 2
  /\ call.x = Zero
  /\ ret.k = "number" /\ ret.value = NegInf

-----------------------------------------------------------------------------
(* The loops of the Bessel library, one step per loop test or loop body.   *)
(* call is the frame of the operation in progress: its arguments, the     *)
(* place reached (pc) and the loop variables; ret is what it returned.    *)
(* Loop counters are JavaScript numbers: integers are exact up to         *)
(* 2^MantissaBits and rounded to the nearest representable value (ties to *)
(* even) above it.  A double has 53 mantissa bits; the format here is     *)
(* shorter so that a counter can be walked up to the limit.  Values that  *)
(* no loop test reads (the sums and products) are not carried.            *)

\* bits of mantissa of the number format
MantissaBits == 7

\* the largest n with every integer 0..n representable (2^53 for a double)
SafeLimit == 2 ^ MantissaBits

\* an integer v in 0 .. 2 * SafeLimit rounded to the format, ties to even
RoundInt(v) ==
  IF v <= SafeLimit \/ v % 2 = 0 THEN v
  ELSE IF (v + 1) % 4 = 0 THEN v + 1 ELSE v - 1

\* a + b on numbers holding integers
DAdd(a, b) ==
  RoundInt(a + b)

\* const maxTerms = 50
maxTerms == 50

\* for (let i = 0; i < 20; i++)
maxIterations == 20

\* orders: the first ones, and the ones around the largest safe integer
LoopOrders == {0, 1, 2, SafeLimit - 1, SafeLimit, SafeLimit + 2}

\* the argument x by the branch it selects: 0, 0 < |x| < 8, |x| >= 8
JArguments == {"zero", "small", "large"}

\* x <= 0, x > 0
YArguments == {"nonpositive", "positive"}

\* the Newton step dx = -j / jp: below 1e-12 in magnitude, not below, NaN, infinite
Steps == {"converged", "far", "nan", "inf"}

Done(op, n) == [op |-> op, n |-> n, pc |-> "done"]

\* factorial(fn) entered from the series term k: the early returns, else i = 2
EnterFactorial(n, k, which, fn, terms) ==
  [op |-> "besselJ", n |-> n, k |-> k, terms |-> terms, which |-> which, fn |-> fn,
   i |-> 2, pc |-> IF fn < 0 \/ fn = 0 \/ fn = 1 THEN "factorial return" ELSE "factorial for"]

\* besselJ(n, x) up to the first loop test of besselJSeries
StartBesselJ ==
  /\ call = NoCall
  /\ \E n \in LoopOrders, x \in JArguments :
       call' = IF x = "small"
               THEN [op |-> "besselJ", n |-> n, k |-> 0, terms |-> 0, pc |-> "series for"]
               ELSE Done("besselJ", n)
  /\ ret' = NoResult
  /\ UNCHANGED guide
  /\ UNCHANGED uiVars

\* for (let k = 0; k < maxTerms; k++): the test, then factorial(k) is entered
besselJSeries_for ==
  /\ call.op = "besselJ" /\ call.pc = "series for"
  /\ call' = IF call.k < maxTerms
             THEN EnterFactorial(call.n, call.k, 1, call.k, call.terms)
             ELSE Done("besselJ", call.n)
  /\ UNCHANGED <<guide, ret>>
  /\ UNCHANGED uiVars

\* for (let i = 2; i <= n; i++) result *= i
factorial_for ==
  /\ call.op = "besselJ" /\ call.pc = "factorial for"
  /\ call' = IF call.i <= call.fn
             THEN [call EXCEPT !.i = DAdd(call.i, 1)]
             ELSE [call EXCEPT !.pc = "factorial return"]
  /\ UNCHANGED <<guide, ret>>
  /\ UNCHANGED uiVars

\* factorial(k) returns into factorial(k + n), which returns into the term
factorial_return ==
  /\ call.op = "besselJ" /\ call.pc = "factorial return"
  /\ call' = IF call.which = 1
             THEN EnterFactorial(call.n, call.k, 2, DAdd(call.k, call.n), call.terms)
             ELSE [op |-> "besselJ", n |-> call.n, k |-> call.k, terms |-> call.terms,
                   pc |-> "series sum"]
  /\ UNCHANGED <<guide, ret>>
  /\ UNCHANGED uiVars

\* sum += term; if (Math.abs(term) < 1e-15 * Math.abs(sum)) break; else k++
besselJSeries_sum ==
  /\ call.op = "besselJ" /\ call.pc = "series sum"
  /\ \E break \in BOOLEAN :
       call' = IF break
               THEN [op |-> "besselJ", n |-> call.n, terms |-> call.terms + 1, pc |-> "done"]
               ELSE [call EXCEPT !.terms = call.terms + 1, !.k = DAdd(call.k, 1),
                                 !.pc = "series for"]
  /\ UNCHANGED <<guide, ret>>
  /\ UNCHANGED uiVars

\* findBesselJZero / findBesselJPrimeZero after the initial estimate
StartFindZero ==
  /\ call = NoCall
  /\ \E op \in {"findBesselJZero", "findBesselJPrimeZero"}, n \in LoopOrders :
       call' = [op |-> op, n |-> n, i |-> 0, iterations |-> 0, x |-> "finite",
                pc |-> "newton for"]
  /\ ret' = NoResult
  /\ UNCHANGED guide
  /\ UNCHANGED uiVars

\* x += dx on the kinds of value
Moved(x, dx) ==
  IF x = "nan" \/ dx = "nan" THEN {"nan"}
  ELSE IF x = "inf" /\ dx = "inf" THEN {"inf", "nan"}
  ELSE IF x = "inf" \/ dx = "inf" THEN {"inf"}
  ELSE {"finite"}

\* for (let i = 0; i < 20; i++) { dx = ...; x += dx; if (Math.abs(dx) < 1e-12) break; }
findBesselZero_for ==
  /\ call.op \in {"findBesselJZero", "findBesselJPrimeZero"} /\ call.pc = "newton for"
  /\ IF call.i < maxIterations
     THEN \E dx \in Steps : \E x \in Moved(call.x, dx) :
            call' = [call EXCEPT !.x = x, !.iterations = call.iterations + 1,
                                 !.i = IF dx = "converged" THEN call.i ELSE DAdd(call.i, 1),
                                 !.pc = IF dx = "converged" THEN "done" ELSE "newton for"]
     ELSE call' = [call EXCEPT !.pc = "done"]
  /\ UNCHANGED <<guide, ret>>
  /\ UNCHANGED uiVars

\* besselY(n, x) up to the first test of its recurrence loop
StartBesselY ==
  /\ call = NoCall
  /\ \E n \in LoopOrders, x \in YArguments :
       call' = IF x = "nonpositive" \/ n = 0 \/ n = 1
               THEN Done("besselY", n)
               ELSE [op |-> "besselY", n |-> n, k |-> 1, pc |-> "recurrence for"]
  /\ ret' = NoResult
  /\ UNCHANGED guide
  /\ UNCHANGED uiVars

\* for (let k = 1; k < n; k++) { yn = ...; y0 = y1; y1 = yn; }
besselY_for ==
  /\ call.op = "besselY" /\ call.pc = "recurrence for"
  /\ call' = IF call.k < call.n
             THEN [call EXCEPT !.k = DAdd(call.k, 1)]
             ELSE Done("besselY", call.n)
  /\ UNCHANGED <<guide, ret>>
  /\ UNCHANGED uiVars

\* the operation returns to its caller
BesselReturns ==
  /\ call # NoCall /\ call.pc = "done"
  /\ call' = NoCall
  /\ ret' = [k |-> "returned", op |-> call.op]
  /\ UNCHANGED guide
  /\ UNCHANGED uiVars

BesselNext ==
  \/ StartBesselJ
  \/ besselJSeries_for
  \/ factorial_for
  \/ factorial_return
  \/ besselJSeries_sum
  \/ StartFindZero
  \/ findBesselZero_for
  \/ StartBesselY
  \/ besselY_for
  \/ BesselReturns

SpecBessel == Init /\ [][BesselNext]_vars

InLoop(pc) == call # NoCall /\ call.pc = pc

\* a loop whose test holds and whose counter no longer moves
LoopStuck ==
  \/ InLoop("factorial for") /\ call.i <= call.fn /\ DAdd(call.i, 1) = call.i
  \/ InLoop("recurrence for") /\ call.k < call.n /\ DAdd(call.k, 1) = call.k

\* the Newton-Raphson loop has run at most 20 bodies and the series has
\* summed at most 50 terms
LoopsCapped ==
  /\ (call # NoCall /\ call.op \in {"findBesselJZero", "findBesselJPrimeZero"})
       => call.iterations <= 20
  /\ (call # NoCall /\ call.op = "besselJ" /\ call.pc # "done" /\ call.pc # "series for")
       => call.terms < 50
  /\ (call # NoCall /\ call.op = "besselJ" /\ call.pc \in {"done", "series for"}
        /\ "terms" \in DOMAIN call) => call.terms <= 50

\* C17: every Bessel operation terminates for every order that is a
\* non-negative integer: no loop is left running with a counter that no
\* longer moves, the Newton-Raphson refinement runs at most 20 iterations
\* whatever its steps are, and the series of J sums at most 50 terms.
C17_EveryBesselOperationTerminates == ~LoopStuck /\ LoopsCapped

TE11 == Mode("TE", 1, 1)

TM01 == Mode("TM", 1, 0)

\* TE11 is at or below every returned mode and strictly below TM01
TE11Dominant ==
  /\ \A j \in DOMAIN ret.modes :
       GE(getCutoffFrequency(guide, ret.modes[j]), getCutoffFrequency(guide, TE11))
  /\ GT(getCutoffFrequency(guide, TM01), getCutoffFrequency(guide, TE11))

\* C19: on every circular guide, whatever its radius, TE11 (n = 1, m = 1)
\* has the lowest cutoff frequency of the modes getAvailableModes returns
\* and TM01 (n = 0, m = 1) a strictly higher one.
C19_TE11LowestOnEveryCircularGuide == ModesCall("circular") => TE11Dominant

\* fc / f of the call
CallRatio == Div(ret.cutoffFrequency, call.frequency)

\* s = sqrt(1 - (fc / f)^2) of the call
CallS == SqrtDiffSq(One, CallRatio)

\* s^2 as a rational, where the square of fc / f is within the exact range
CallS2 == Sub(One, Pow2(CallRatio))

PropagatingCall == ParamsCall /\ ret.isPropagatif /\ call.mode.type \in {"TE", "TM", "TEM"}

\* C20: when the mode propagates, 0 < s <= 1 (that is, |fc / f| < 1), the
\* impedance returned is eta0 / s for TE, eta0 * s for TM and eta0 for TEM;
\* the TE value over eta0 is 1 / s >= 1, the TM value over eta0 is s <= 1,
\* and the two multiply to 1, compared through their squares.
C20_ImpedanceByFamily ==
  PropagatingCall =>
    /\ LT(Abs(CallRatio), One)
    /\ call.mode.type = "TE" => ret.impedance = Div(ETA0, CallS)
    /\ call.mode.type = "TM" => ret.impedance = Mul(ETA0, CallS)
    /\ call.mode.type = "TEM" => ret.impedance = ETA0
    /\ (IsRat(CallRatio) /\ SqFits(CallRatio)) =>
         /\ GT(CallS2, Zero) /\ LE(CallS2, One)
         /\ GE(Recip(CallS2), One)
         /\ Mul(Recip(CallS2), CallS2) = One

RectangularPropagating ==
  ParamsCall /\ guide.type = "rectangular" /\ ret.isPropagatif

\* C21: for a propagating mode of a rectangular guide the phase velocity is
\* c / s and the group velocity c * s with s = sqrt(1 - (fc / f)^2), so that
\* their product is c^2; when fc > 0, 0 < s < 1, the phase velocity is
\* above c and the group velocity below c (compared through s^2).
C21_PhaseTimesGroupIsCSquared ==
  RectangularPropagating =>
    /\ LT(Abs(CallRatio), One)
    /\ ret.phaseVelocity = Div(C, CallS)
    /\ ret.groupVelocity = Mul(C, CallS)
    /\ (IsRat(CallRatio) /\ SqFits(CallRatio)) =>
         /\ Mul(Recip(CallS2), CallS2) = One
         /\ GT(ret.cutoffFrequency, Zero) =>
               (GT(Recip(CallS2), One) /\ LT(CallS2, One) /\ GT(CallS2, Zero))

\* TE10 of the 2 cm x 1 cm guide (fc = 7.5 GHz) at 10 GHz
C21_Witness ==
  /\ RectangularPropagating
  /\ call.mode = Mode("TE", 1, 0)
  /\ call.frequency = Num(10)
  /\ GT(ret.cutoffFrequency, Zero)
  /\ IsRat(CallRatio) /\ SqFits(CallRatio) /\ LT(CallS2, One)

FieldResult == FieldCall /\ ret.k = "field"

\* C22: in every field getFieldDistribution returns, E.z is 0 for a TE mode,
\* H.z is 0 for a TM mode, and both are 0 for the TEM mode of a coaxial guide.
C22_AxialComponentsVanish ==
  FieldResult =>
    /\ call.mode.type = "TE" => ret.E.z = Zero
    /\ call.mode.type = "TM" => ret.H.z = Zero
    /\ (call.mode.type = "TEM" /\ guide.type = "coaxial") =>
         (ret.E.z = Zero /\ ret.H.z = Zero)

\* a TE field inside the guide: H.z is the generating component, E.z is 0
C22_Witness ==
  /\ FieldResult
  /\ call.mode.type = "TE"
  /\ ret.H.z # Zero
  /\ ret.E.z = Zero

-----------------------------------------------------------------------------
(* The cached factorial (utils/canvas.ts, lines 641-670).  The cache is a  *)
(* Map from integers to numbers; the values are walked as exact integers.  *)

\* the largest argument of the calls
MaxFactorial == 9

\* the arguments: -2 .. MaxFactorial, fractions, NaN and the infinities
FactorialArguments ==
  {Num(i) : i \in -2 .. MaxFactorial} \cup Fractions \cup {NaN, PosInf, NegInf}

\* factorialCache.size
size(cache) == Cardinality(DOMAIN cache)

\* variant: the product restarts from 1 instead of the last cached value
factorialSeed_one(cache) == 1

\* let result = factorialCache.get(factorialCache.size - 1)!
factorialSeed(cache) == cache[size(cache) - 1]

\* for (let i = factorialCache.size; i <= n; i++) { result *= i; set(i, result) }
RECURSIVE factorialFill(_, _, _, _)
factorialFill(cache, i, n, result) ==
  IF i > n THEN [k |-> "ok", value |-> result, cache |-> cache]
  ELSE factorialFill((i :> result * i) @@ cache, i + 1, n, result * i)

\* factorial(n) on a cache: the outcome, the value and the cache afterwards
factorial(cache, n) ==
  IF LT(n, Zero) \/ ~Number_isInteger(n)
  THEN [k |-> "throw", value |-> 0, cache |-> cache]
  ELSE IF n.n \in DOMAIN cache
  THEN [k |-> "ok", value |-> cache[n.n], cache |-> cache]
  ELSE factorialFill(cache, size(cache), n.n, factorialSeed(cache))

\* the call's result as the caller sees it
FactorialResult(r) ==
  IF r.k = "throw" THEN Throw("factorial") ELSE [k |-> "number", value |-> r.value]

CallFactorial ==
  /\ call = NoCall
  /\ \E n \in FactorialArguments :
       /\ call' = [op |-> "factorial", n |-> n]
       /\ ret' = FactorialResult(factorial(factorialCache, n))
       /\ factorialCache' = factorial(factorialCache, n).cache
  /\ UNCHANGED <<guide, store, animation>>

MathNext ==
  \/ CallFactorial
  \/ TakeResult

SpecMath == Init /\ [][MathNext]_vars

\* n! by its definition
RECURSIVE Factorial(_)
Factorial(n) == IF n = 0 THEN 1 ELSE n * Factorial(n - 1)

FactorialCall == call.op = "factorial"

ValidFactorialArgument(n) == n.k = "rat" /\ n.d = 1 /\ n.n >= 0

\* the cache holds exactly the keys 0..k, k >= 1, with cache[i] = i!
CacheContiguous(cache) ==
  /\ DOMAIN cache = 0 .. (size(cache) - 1)
  /\ size(cache) >= 2
  /\ \A i \in DOMAIN cache : cache[i] = Factorial(i)

\* C23: the cached factorial returns n! for every non-negative integer n
\* after any sequence of earlier calls, on a hit and on a miss; the cache
\* always holds exactly the contiguous keys 0..k with cache[i] = i!, never
\* loses a key, and a call with n < 0 or a non-integer n raises an error and
\* leaves the cache unchanged
C23_FactorialCacheExact ==
  [][/\ CacheContiguous(factorialCache')
     /\ DOMAIN factorialCache \subseteq DOMAIN factorialCache'
     /\ call'.op = "factorial" =>
          IF ValidFactorialArgument(call'.n)
          THEN /\ ret' = [k |-> "number", value |-> Factorial(call'.n.n)]
               /\ DOMAIN factorialCache' = DOMAIN factorialCache \cup (0 .. call'.n.n)
          ELSE /\ IsThrow(ret')
               /\ factorialCache' = factorialCache]_vars

\* a miss on a cache that earlier calls had already extended
C23_Witness ==
  /\ FactorialCall
  /\ call.n = Num(6)
  /\ ret = [k |-> "number", value |-> 720]
  /\ size(factorialCache) = 7

-----------------------------------------------------------------------------
(* The actions of the simulation store (hooks/usePropagationDraw.ts,       *)
(* lines 969-1077).  Each action is one synchronous call; call records the *)
(* call and ret what reaches the caller, until the caller takes it.        *)
(* setTime and toggleAnimation touch nothing the other actions read; they  *)
(* are driven by the animation hook further down.                          *)

\* the largest dimension the store's callers pass, in cm
MaxStoreDim == 2

\* the dimensions passed to setWaveguideParams: positive ones and NaN
StoreDims == {Num(i) : i \in 1 .. MaxStoreDim} \cup {NaN}

WaveguideTypes == {"rectangular", "circular", "coaxial", "other"}

\* the frequencies passed to setFrequency, in GHz: not a number, infinite,
\* negative, zero, below the range, inside it and above it
StoreFrequencies ==
  {NaN, PosInf, Num(-5), Zero, Rat(1, 10000), Num(10), Num(5000)}

\* the dimension fields of a waveguide type
FieldsOf(type) ==
  CASE type = "rectangular" -> {"a", "b"}
    [] type = "circular" -> {"radius"}
    [] type = "coaxial" -> {"innerRadius", "outerRadius"}
    [] OTHER -> {}

\* a complete parameter object of another type
TypeSwitches == {DEFAULT_CIRCULAR}

\* Partial<AnyWaveguideParams>: one dimension of the current type, as the
\* sliders of the control panel pass it, or a type with its dimensions
ParamEdits(type) ==
  {(f :> v) : f \in FieldsOf(type), v \in StoreDims} \cup TypeSwitches

Void == [k |-> "void"]

\* what reaches the caller of an action that ends with updateCalculatedParams()
AfterUpdate(state) ==
  IF updateThrows(state) THEN Throw("getCalculatedParams") ELSE Void

\* availableModes[0] || DEFAULT_MODE
FirstOr(availableModes, default) ==
  IF Len(availableModes) = 0 THEN default ELSE availableModes[1]

\* createWaveguideInstance(newParams) and availableModes[0] || DEFAULT_MODE
\* for the three parameter objects of setWaveguideType
NewRectangular == createWaveguideInstance(DEFAULT_RECTANGULAR).this

NewCircular == createWaveguideInstance(DEFAULT_CIRCULAR).this

NewCoaxial == createWaveguideInstance(DEFAULT_COAXIAL).this

FirstRectangular == FirstOr(getAvailableModes(NewRectangular), DEFAULT_MODE)

FirstCircular == FirstOr(getAvailableModes(NewCircular), DEFAULT_MODE)

FirstCoaxial == FirstOr(getAvailableModes(NewCoaxial), DEFAULT_MODE)

\* set({ waveguide: newParams, waveguideInstance, mode })
SetGuideAndMode(state, newParams, waveguideInstance, mode) ==
  [state EXCEPT !.waveguide = newParams,
                !.waveguideInstance = waveguideInstance,
                !.mode = mode]

\* the store after the set of setWaveguideType(type)
setWaveguideType(state, type) ==
  CASE type = "rectangular" ->
         SetGuideAndMode(state, DEFAULT_RECTANGULAR, NewRectangular, FirstRectangular)
    [] type = "circular" ->
         SetGuideAndMode(state, DEFAULT_CIRCULAR, NewCircular, FirstCircular)
    [] type = "coaxial" ->
         SetGuideAndMode(state, DEFAULT_COAXIAL, NewCoaxial, FirstCoaxial)
    [] OTHER -> state

CallSetWaveguideType ==
  /\ call = NoCall
  /\ \E type \in WaveguideTypes :
       /\ call' = [op |-> "setWaveguideType", type |-> type]
       /\ store' = updateCalculatedParams(setWaveguideType(store, type))
       /\ ret' = AfterUpdate(setWaveguideType(store, type))
  /\ UNCHANGED <<guide, factorialCache, animation>>

\* variant: the merged parameters are stored before the instance is built
TrySetParams_storesFirst(state, newParams, created) ==
  IF IsThrow(created) THEN [state EXCEPT !.waveguide = newParams]
  ELSE updateCalculatedParams(
         [state EXCEPT !.waveguide = newParams,
                       !.waveguideInstance = created.this])

\* the try block of setWaveguideParams on the merged parameters: a throw of
\* the constructor leaves the store alone, a throw of
\* updateCalculatedParams() comes after the set and is caught as well
TrySetParams(state, newParams, created) ==
  IF IsThrow(created) THEN state
  ELSE updateCalculatedParams(
         [state EXCEPT !.waveguide = newParams,
                       !.waveguideInstance = created.this])

setWaveguideParams(state, params) ==
  TrySetParams(state, Spread(state.waveguide, params),
               createWaveguideInstance(Spread(state.waveguide, params)))

CallSetWaveguideParams ==
  /\ call = NoCall
  /\ \E params \in ParamEdits(store.waveguide.type) :
       /\ call' = [op |-> "setWaveguideParams", params |-> params]
       /\ store' = setWaveguideParams(store, params)
  /\ ret' = Void
  /\ UNCHANGED <<guide, factorialCache, animation>>

\* the modes the control panel offers: getAvailableModes() of the instance
\* how many entries of the mode list the callers choose from
MaxModeChoice == 2

\* the first entries of a list of modes
FirstModes(availableModes) ==
  {availableModes[j] : j \in 1 .. Len(availableModes)} \ 
    {availableModes[j] : j \in (MaxModeChoice + 1) .. Len(availableModes)}

ModeOptions(state) == FirstModes(getAvailableModes(state.waveguideInstance))

setMode(state, mode) == [state EXCEPT !.mode = mode]

CallSetMode ==
  /\ call = NoCall
  /\ \E mode \in ModeOptions(store) :
       /\ call' = [op |-> "setMode", mode |-> mode]
       /\ store' = updateCalculatedParams(setMode(store, mode))
       /\ ret' = AfterUpdate(setMode(store, mode))
  /\ UNCHANGED <<guide, factorialCache, animation>>

setFrequency(state, frequency) ==
  IF ~isValidPositiveNumber(frequency) THEN state
  ELSE [state EXCEPT !.frequency = clamp(frequency, MIN_FREQUENCY, MAX_FREQUENCY)]

CallSetFrequency ==
  /\ call = NoCall
  /\ \E frequency \in StoreFrequencies :
       /\ call' = [op |-> "setFrequency", frequency |-> frequency]
       /\ store' = IF ~isValidPositiveNumber(frequency) THEN store
                   ELSE updateCalculatedParams(setFrequency(store, frequency))
       /\ ret' = IF ~isValidPositiveNumber(frequency) THEN Void
                 ELSE AfterUpdate(setFrequency(store, frequency))
  /\ UNCHANGED <<guide, factorialCache, animation>>

setTime(state, time) == [state EXCEPT !.time = time]

toggleAnimation(state) == [state EXCEPT !.isAnimating = ~state.isAnimating]

\* reset(): every field from the defaults, the bundle computed in the set
reset(created) ==
  [waveguide |-> DEFAULT_RECTANGULAR,
   mode |-> DEFAULT_MODE,
   frequency |-> DEFAULT_FREQUENCY,
   time |-> Zero,
   isAnimating |-> FALSE,
   calculatedParams |-> getCalculatedParams(created.this, DEFAULT_FREQUENCY, DEFAULT_MODE),
   waveguideInstance |-> created.this]

CallReset ==
  /\ call = NoCall
  /\ call' = [op |-> "reset"]
  /\ store' = reset(createWaveguideInstance(DEFAULT_RECTANGULAR))
  /\ ret' = Void
  /\ UNCHANGED <<guide, factorialCache, animation>>

StoreNext ==
  \/ CallSetWaveguideType
  \/ CallSetWaveguideParams
  \/ CallSetMode
  \/ CallSetFrequency
  \/ CallReset
  \/ TakeResult

SpecStore == Init /\ [][StoreNext]_vars

-----------------------------------------------------------------------------
(* Claims on the simulation store                                          *)

StoreCall(op) == call.op = op

\* a store action has returned to its caller without an exception
Completed ==
  /\ call.op \in {"setWaveguideType", "setWaveguideParams", "setMode",
                  "setFrequency", "reset"}
  /\ ret = Void

\* the bundle is the one of the store's instance, frequency and mode
BundleCurrent(state) ==
  state.calculatedParams =
    getCalculatedParams(state.waveguideInstance, state.frequency, state.mode)

\* C24: after every completed action among setWaveguideType,
\* setWaveguideParams, setMode (with one of the instance's available modes),
\* setFrequency and reset, calculatedParams is getCalculatedParams(frequency,
\* mode) of the store's instance, and so it is in the initial store
C24_CalculatedParamsCurrent == (Completed \/ call = NoCall) => BundleCurrent(store)

\* the edits of one dimension, as the control panel makes them, keep the
\* bundle current as long as the store's mode is supported by its instance
C24_CurrentWhileSupported ==
  (Completed /\ isModeSupported(store.waveguideInstance, store.mode))
    => BundleCurrent(store)

\* C25: when the parameters of setWaveguideParams make the construction of
\* the instance fail, no exception reaches the caller and the store (params,
\* instance, mode, frequency, calculatedParams) is as before the call
C25_FailedEditIgnored ==
  [][(/\ call'.op = "setWaveguideParams"
      /\ IsThrow(createWaveguideInstance(Spread(store.waveguide, call'.params))))
       => (store' = store /\ ret' = Void)]_vars

\* a rejected edit has returned: NaN for a side of the rectangle
C25_Witness ==
  /\ StoreCall("setWaveguideParams")
  /\ call.params = ("a" :> NaN)
  /\ store.waveguide.type = "rectangular"
  /\ IsThrow(createWaveguideInstance(Spread(store.waveguide, call.params)))
  /\ ret = Void

InFrequencyRange(frequency) ==
  /\ isFinite(frequency)
  /\ GE(frequency, MIN_FREQUENCY)
  /\ LE(frequency, MAX_FREQUENCY)

\* the argument itself inside the range, the nearer limit outside
Clamped(frequency) ==
  IF LT(frequency, MIN_FREQUENCY) THEN MIN_FREQUENCY
  ELSE IF GT(frequency, MAX_FREQUENCY) THEN MAX_FREQUENCY
  ELSE frequency

\* C26: setFrequency leaves the store as it is for every argument that is
\* not a finite number > 0 and otherwise stores the argument clamped to
\* [MIN_FREQUENCY, MAX_FREQUENCY]; the stored frequency is finite and within
\* that range in the initial store and after every action
C26_FrequencyClamped ==
  /\ InFrequencyRange(store.frequency)
  /\ [][/\ InFrequencyRange(store'.frequency)
        /\ call'.op = "setFrequency" =>
             IF isFinite(call'.frequency) /\ GT(call'.frequency, Zero)
             THEN store'.frequency = Clamped(call'.frequency)
             ELSE store' = store
        /\ (call' # NoCall /\ call'.op # "setFrequency" /\ call'.op # "reset")
             => store'.frequency = store.frequency]_vars

\* a frequency below the range has been stored as the lower limit
C26_Witness ==
  /\ StoreCall("setFrequency")
  /\ call.frequency = Rat(1, 10000)
  /\ store.frequency = MIN_FREQUENCY
  /\ store.frequency # DEFAULT_FREQUENCY

\* C28: after any sequence of setWaveguideType, setWaveguideParams, reset and
\* setMode calls with one of the instance's available modes, the store's
\* mode is supported by the store's instance
C28_ModeSupported == isModeSupported(store.waveguideInstance, store.mode)

\* setWaveguideType installs the first available mode of the new geometry,
\* and an edit that keeps the waveguide type keeps the mode supported
C28_TypeChangeTakesFirstMode ==
  [][/\ (call'.op = "setWaveguideType" /\ call'.type # "other") =>
          /\ store'.mode = getAvailableModes(store'.waveguideInstance)[1]
          /\ isModeSupported(store'.waveguideInstance, store'.mode)
     /\ (/\ call'.op = "setWaveguideParams"
         /\ store'.waveguideInstance.type = store.waveguideInstance.type
         /\ isModeSupported(store.waveguideInstance, store.mode))
          => isModeSupported(store'.waveguideInstance, store'.mode)]_vars

\* the dimensions of the store's params are those of the store's instance
SameDimensions(waveguide, instance) ==
  /\ waveguide.type = instance.type
  /\ \A f \in FieldsOf(instance.type) : waveguide[f] = instance[f]

\* C29: after any sequence of actions the dimensions in the store's
\* waveguide params are the dimensions of the store's instance
C29_ParamsAreInstanceDimensions ==
  SameDimensions(store.waveguide, store.waveguideInstance)

-----------------------------------------------------------------------------
(* The animation hook useAnimation (lines 148-215 of                       *)
(* engine/waveguides/__tests__/RectangularWaveguide.test.ts), mounted once *)
(* on the simulation store.  The effect on isAnimating runs with the       *)
(* commit of the store change that triggers it.                            *)

ANIMATION_CYCLES_PER_SECOND == Rat(1, 2)

\* the latest timestamp of the page's clock, in ms
MaxClock == 6000

\* the time between two events of the page, in ms: a short and a long gap
Gaps == {500, 2500}

\* cancelAnimationFrame(frameRef.current) if a frame was ever requested
cancelFrame(a) == IF a.frame # 0 THEN [a EXCEPT !.pending = FALSE] ELSE a

\* variant: starting the animation keeps the timestamp of the last frame
effect_keepsLastTime(a, isAnimating) ==
  IF isAnimating
  THEN [a EXCEPT !.frame = 1, !.pending = TRUE, !.previous = -1]
  ELSE cancelFrame(a)

\* the body of the effect for the new value of isAnimating
effect(a, isAnimating) ==
  IF isAnimating
  THEN [a EXCEPT !.lastTime = 0, !.frame = 1, !.pending = TRUE, !.previous = -1]
  ELSE cancelFrame(a)

\* the cleanup of the previous effect, then the effect
rerunEffect(a, isAnimating) == effect(cancelFrame(a), isAnimating)

\* if (!lastTimeRef.current) lastTimeRef.current = timestamp
lastTimeOr(a, timestamp) == IF a.lastTime = 0 THEN timestamp ELSE a.lastTime

\* delta * 2 * Math.PI * ANIMATION_CYCLES_PER_SECOND, delta in seconds
phaseIncrement(elapsed) ==
  Mul(Mul(Mul(Rat(elapsed, 1000), Num(2)), PI), ANIMATION_CYCLES_PER_SECOND)

\* if (phaseRef.current > 2 * Math.PI) phaseRef.current -= 2 * Math.PI
wrapOnce(phase) == IF GT(phase, TwoPi) THEN Sub(phase, TwoPi) ELSE phase

\* the refs after animate(timestamp); the next frame is requested
animate(a, timestamp) ==
  [a EXCEPT !.lastTime = timestamp,
            !.phase = wrapOnce(Add(a.phase,
                        phaseIncrement(timestamp - lastTimeOr(a, timestamp)))),
            !.frame = 1,
            !.pending = TRUE,
            !.previous = timestamp,
            !.latest = timestamp]

\* time passes on the page
Elapse ==
  /\ \E gap \in Gaps :
       /\ animation.now + gap <= MaxClock
       /\ animation' = [animation EXCEPT !.now = animation.now + gap]
  /\ UNCHANGED <<guide, call, ret, factorialCache, store>>

\* toggle(): the store's toggleAnimation, then the effect on isAnimating
Toggle ==
  /\ call' = [op |-> "toggleAnimation"]
  /\ ret' = Void
  /\ store' = toggleAnimation(store)
  /\ animation' = rerunEffect(animation, ~store.isAnimating)
  /\ UNCHANGED <<guide, factorialCache>>

\* the browser runs the pending frame callback with the current timestamp;
\* call also tells whether it is the first frame of its running period and
\* how long ago the latest frame of any period ran
Animate ==
  /\ animation.pending
  /\ call' = [op |-> "animate", timestamp |-> animation.now,
               first |-> animation.previous < 0,
               idle |-> IF animation.latest < 0 THEN 0
                        ELSE animation.now - animation.latest]
  /\ ret' = Void
  /\ animation' = animate(animation, animation.now)
  /\ store' = setTime(store, animate(animation, animation.now).phase)
  /\ UNCHANGED <<guide, factorialCache>>

\* the hook's reset(): phaseRef.current = 0; setTime(0)
ResetAnimation ==
  /\ call' = [op |-> "resetAnimation"]
  /\ ret' = Void
  /\ animation' = [animation EXCEPT !.phase = Zero]
  /\ store' = setTime(store, Zero)
  /\ UNCHANGED <<guide, factorialCache>>

\* the store's reset(); the effect runs if isAnimating changes
ResetStore ==
  /\ call' = [op |-> "reset"]
  /\ ret' = Void
  /\ store' = reset(createWaveguideInstance(DEFAULT_RECTANGULAR))
  /\ animation' = IF store.isAnimating THEN rerunEffect(animation, FALSE)
                  ELSE animation
  /\ UNCHANGED <<guide, factorialCache>>

AnimationNext ==
  \/ Elapse
  \/ Toggle
  \/ Animate
  \/ ResetAnimation
  \/ ResetStore

SpecAnimation == Init /\ [][AnimationNext]_vars

AnimateCall == call.op = "animate"

\* C27: the phase passed to setTime after every animation frame lies within
\* [0, 2 * pi], whatever the gaps between the frames' timestamps
C27_PhaseWithinOneTurn ==
  AnimateCall => (GE(store.time, Zero) /\ LE(store.time, TwoPi))

\* a gap of up to two seconds between consecutive frames keeps the phase of
\* the next frame within [0, 2 * pi] when it was there before
C27_ShortGapsStayWithinOneTurn ==
  [][(/\ call'.op = "animate"
      /\ animation.previous >= 0
      /\ call'.timestamp - animation.previous <= 2000
      /\ LE(animation.phase, TwoPi))
       => (GE(store'.time, Zero) /\ LE(store'.time, TwoPi))]_vars

\* the time a frame accounts for: the time since the previous frame of the
\* running period, nothing for its first frame
ElapsedInPeriod(a, timestamp) ==
  IF a.previous < 0 THEN 0 ELSE timestamp - a.previous

\* phase after phase before plus the increment, up to one turn
AdvancedBy(after, before, increment) ==
  after = Add(before, increment) \/ after = Sub(Add(before, increment), TwoPi)

=============================================================================
